---- MODULE Spec2Model ----
(***************************************************************************)
(* Model of the monad-x402 payment gate: the paymentMiddleware of          *)
(* src/lib/x402-middleware.ts, the facilitator's verify and settle         *)
(* endpoints (src/unnamed/part_007), the chain utilities they call         *)
(* (src/MonX402/lib/monad-utils.ts), the bot classifier and               *)
(* botProtectionMiddleware (src/unnamed/part_001) and the buyer's client   *)
(* x402axios (src/lib/index.ts).                                           *)
(*                                                                         *)
(* Conventions.  A JavaScript string whose characters matter (an address,  *)
(* a User-Agent, a decimal amount) is a sequence of one-character strings. *)
(* A network identifier is a sequence of tokens, so that the "monad-"      *)
(* prefix is something the code's startsWith can look at.  A value that    *)
(* may be null or undefined is None (the empty sequence) or Some(v).       *)
(* Fixed message texts are TLA+ strings (the static part of the template). *)
(***************************************************************************)
EXTENDS Integers, Sequences, FiniteSets

VARIABLES cfg, req, chain, fac, bot, ax, par

vars == <<cfg, req, chain, fac, bot, ax, par>>

None == <<>>
Some(v) == <<v>>
IsSome(o) == Len(o) = 1
Get(o) == o[1]

----------------------------------------------------------------------------
(* Bounds of the model *)

\* the largest configured price, in atomic units
MaxPrice == 10

\* requests paymentMiddleware serves at the same time, and requests in all
NumSlots == 2
MaxRequests == 3

----------------------------------------------------------------------------
(* Protocol constants: src/unnamed/part_003 lines 161-166 *)

X402_VERSION == 1
MONAD_SCHEME == "evm-transfer"
MONAD_MAINNET == <<"monad-", "mainnet">>
MONAD_TESTNET == <<"monad-", "testnet">>

----------------------------------------------------------------------------
(* Strings *)

Lower(c) ==
  CASE c = "A" -> "a" [] c = "B" -> "b" [] c = "C" -> "c" [] c = "D" -> "d"
    [] c = "E" -> "e" [] c = "F" -> "f" [] c = "G" -> "g" [] c = "H" -> "h"
    [] c = "I" -> "i" [] c = "J" -> "j" [] c = "K" -> "k" [] c = "L" -> "l"
    [] c = "M" -> "m" [] c = "N" -> "n" [] c = "O" -> "o" [] c = "P" -> "p"
    [] c = "Q" -> "q" [] c = "R" -> "r" [] c = "S" -> "s" [] c = "T" -> "t"
    [] c = "U" -> "u" [] c = "V" -> "v" [] c = "W" -> "w" [] c = "X" -> "x"
    [] c = "Y" -> "y" [] c = "Z" -> "z" [] OTHER -> c

\* String.prototype.toLowerCase
ToLowerCase(s) == [i \in 1..Len(s) |-> Lower(s[i])]

\* String.prototype.startsWith('monad-') on a network identifier
StartsWithMonad(n) == Len(n) > 0 /\ n[1] = "monad-"

DigitChar(d) == <<"0", "1", "2", "3", "4", "5", "6", "7", "8", "9">>[d + 1]

\* BigInt.prototype.toString: the canonical decimal numeral of n >= 0
RECURSIVE BigIntToString(_)
BigIntToString(n) ==
  IF n < 10 THEN <<DigitChar(n)>>
  ELSE BigIntToString(n \div 10) \o <<DigitChar(n % 10)>>

----------------------------------------------------------------------------
(* Base64 and JSON, as Buffer and JSON do them.  A text is a sequence of   *)
(* bytes; a base64 string is a sequence of symbols: 0..63 are the          *)
(* alphabet, B64Pad is '=', any larger number is a character outside the   *)
(* alphabet (such as '!').                                                 *)

B64Pad == 64

\* Buffer.from(bytes).toString('base64')
RECURSIVE B64Encode(_)
B64Encode(b) ==
  IF Len(b) = 0 THEN <<>>
  ELSE IF Len(b) = 1 THEN <<b[1] \div 4, (b[1] % 4) * 16, B64Pad, B64Pad>>
  ELSE IF Len(b) = 2
    THEN <<b[1] \div 4, (b[1] % 4) * 16 + (b[2] \div 16), (b[2] % 16) * 4, B64Pad>>
  ELSE <<b[1] \div 4, (b[1] % 4) * 16 + (b[2] \div 16),
         (b[2] % 16) * 4 + (b[3] \div 64), b[3] % 64>>
       \o B64Encode(SubSeq(b, 4, Len(b)))

\* the symbols Buffer.from(s, 'base64') reads: it stops at the first '=' and
\* skips every character outside the alphabet; it never throws
RECURSIVE B64Symbols(_)
B64Symbols(s) ==
  IF Len(s) = 0 \/ s[1] = B64Pad THEN <<>>
  ELSE IF s[1] > B64Pad THEN B64Symbols(Tail(s))
  ELSE <<s[1]>> \o B64Symbols(Tail(s))

RECURSIVE B64Groups(_)
B64Groups(q) ==
  IF Len(q) < 2 THEN <<>>
  ELSE IF Len(q) = 2 THEN <<q[1] * 4 + (q[2] \div 16)>>
  ELSE IF Len(q) = 3
    THEN <<q[1] * 4 + (q[2] \div 16), (q[2] % 16) * 16 + (q[3] \div 4)>>
  ELSE <<q[1] * 4 + (q[2] \div 16), (q[2] % 16) * 16 + (q[3] \div 4),
         (q[3] % 4) * 64 + q[4]>>
       \o B64Groups(SubSeq(q, 5, Len(q)))

\* Buffer.from(s, 'base64').toString('utf-8')
B64Decode(s) == B64Groups(B64Symbols(s))

----------------------------------------------------------------------------
(* Addresses and signed transactions.  A signed transaction (the hex       *)
(* string of the payload) is the index of its row in SignedTxTable; 0 is   *)
(* the empty string.  The row is what ethers.Transaction.from recovers     *)
(* from it, or parses = FALSE when ethers throws.                          *)

AddrPayee == <<"0", "x", "a", "B">>
AddrPayeeOtherCase == <<"0", "x", "A", "b">>
AddrOther == <<"0", "x", "a", "C">>
AddrSender == <<"0", "x", "5", "E">>
AddrBuyer2 == <<"0", "x", "7", "D">>

HexChars == {"0", "1", "2", "3", "4", "5", "6", "7", "8", "9",
             "a", "b", "c", "d", "e", "f", "A", "B", "C", "D", "E", "F"}

\* isValidAddress (ethers.isAddress): a 0x-prefixed hex string; the model's
\* addresses are short and carry no checksum
isValidAddress(a) ==
  /\ Len(a) = Len(AddrSender)
  /\ a[1] = "0" /\ a[2] = "x"
  /\ \A i \in 3..Len(a) : a[i] \in HexChars

Tx(from, to, value) == [parses |-> TRUE, from |-> from, to |-> to, value |-> value]

SignedTxTable ==
  << Tx(Some(AddrSender), Some(AddrPayee), MaxPrice),
     Tx(Some(AddrSender), Some(AddrPayeeOtherCase), MaxPrice),
     Tx(Some(AddrSender), Some(AddrOther), MaxPrice),
     Tx(Some(AddrSender), None, MaxPrice),
     Tx(Some(AddrSender), Some(AddrPayee), MaxPrice - 1),
     Tx(Some(AddrSender), Some(AddrPayee), MaxPrice + 1),
     Tx(None, Some(AddrPayee), MaxPrice),
     [parses |-> FALSE, from |-> None, to |-> None, value |-> 0],
     Tx(Some(AddrSender), Some(AddrOther), MaxPrice + 1),
     Tx(Some(AddrBuyer2), Some(AddrPayee), MaxPrice),
     Tx(Some(AddrBuyer2), Some(AddrOther), MaxPrice),
     Tx(Some(AddrBuyer2), Some(AddrPayee), MaxPrice + 1),
     Tx(Some(AddrBuyer2), Some(AddrOther), MaxPrice + 1) >>

SignedTxs == 1..Len(SignedTxTable)

\* parseSignedTransaction: the parsed transaction; callers test .parses first,
\* ethers throws when it is FALSE
parseSignedTransaction(signedTx) == SignedTxTable[signedTx]

\* the transaction hash the chain gives a broadcast transaction
TxHash(signedTx) == <<"0x", signedTx>>

----------------------------------------------------------------------------
(* The payload codec.  JSON.stringify writes a PaymentPayload as the bytes *)
(* '{', version, scheme, network, payload, '}' (each field one byte: its   *)
(* index in the table of values the model uses), and null as 'n'.          *)

SchemeTable == <<MONAD_SCHEME, "exact">>
NetworkTable ==
  <<MONAD_TESTNET, MONAD_MAINNET, <<"monad-", "devnet">>, <<"monad-">>, <<"testnet">>>>

IndexOf(table, x) == CHOOSE i \in 1..Len(table) : table[i] = x

ByteOpen == 123
ByteClose == 125
ByteNull == 110

\* payload: None when the "payload" key is absent, else Some(signedTransaction)
PaymentPayload(version, scheme, network, payload) ==
  [isNull |-> FALSE, x402Version |-> version, scheme |-> scheme,
   network |-> network, payload |-> payload]

JsonNull ==
  [isNull |-> TRUE, x402Version |-> 0, scheme |-> "", network |-> <<>>, payload |-> None]

JSONStringify(p) ==
  IF p.isNull THEN <<ByteNull>>
  ELSE <<ByteOpen, p.x402Version, IndexOf(SchemeTable, p.scheme),
         IndexOf(NetworkTable, p.network),
         IF IsSome(p.payload) THEN Get(p.payload) + 1 ELSE 0,
         ByteClose>>

\* whether JSON.parse accepts the text (it throws a SyntaxError otherwise)
JSONParses(t) ==
  \/ t = <<ByteNull>>
  \/ /\ Len(t) = 6
     /\ t[1] = ByteOpen /\ t[6] = ByteClose
     /\ t[2] \in 0..9
     /\ t[3] \in 1..Len(SchemeTable)
     /\ t[4] \in 1..Len(NetworkTable)
     /\ t[5] \in 0..(Len(SignedTxTable) + 1)

JSONParse(t) ==
  IF t = <<ByteNull>> THEN JsonNull
  ELSE PaymentPayload(t[2], SchemeTable[t[3]], NetworkTable[t[4]],
                      IF t[5] = 0 THEN None ELSE Some(t[5] - 1))

\* what a buyer puts in X-PAYMENT
EncodeHeader(p) == B64Encode(JSONStringify(p))

----------------------------------------------------------------------------
(* Messages.  An error message is a sequence of tokens; a fixed text of    *)
(* the code is one token (the static part of its template).                *)

Msg(text) == <<text>>

\* String.prototype.includes(needle) on a message
Includes(message, needle) == \E i \in 1..Len(message) : message[i] = needle

\* the message of the TypeError a property read of undefined or null throws
TypeErrorMsg == Msg("Cannot read properties of undefined")

----------------------------------------------------------------------------
(* Facilitator: POST /verify (src/unnamed/part_007 lines 23-245).          *)
(* A request body is None when request.json() throws, else                 *)
(* Some([x402Version, paymentHeader, paymentRequirements]); paymentHeader  *)
(* is None or Some(base64 string); paymentRequirements is None or          *)
(* Some([scheme, network, maxAmountRequired, resource, payTo]) with        *)
(* network and payTo None when undefined.                                  *)

VerifyResponse(status, isValid, invalidReason, parsedTx) ==
  [status |-> status, isValid |-> isValid, invalidReason |-> invalidReason,
   parsedTx |-> parsedTx]

Invalid(status, text) == VerifyResponse(status, FALSE, Some(Msg(text)), FALSE)

RecipientMatchesExactCase(tx, payTo) == IsSome(tx.to) /\ Get(tx.to) = payTo

\* a recipient check that any transaction with a recipient passes
RecipientMatchesAnyone(tx, payTo) == IsSome(tx.to)

\* part_007 line 177: the recipient check passes
RecipientMatches(tx, payTo) ==
  IsSome(tx.to) /\ ToLowerCase(Get(tx.to)) = ToLowerCase(payTo)

\* the number a decimal numeral denotes
RECURSIVE DecimalValue(_)
DecimalValue(s) ==
  IF Len(s) = 0 THEN 0
  ELSE 10 * DecimalValue(SubSeq(s, 1, Len(s) - 1))
       + (CHOOSE d \in 0..9 : DigitChar(d) = s[Len(s)])

AmountAtLeast(tx, maxAmountRequired) == tx.value >= DecimalValue(maxAmountRequired)

\* part_007 line 189: the amount check passes
AmountMatches(tx, maxAmountRequired) ==
  BigIntToString(tx.value) = maxAmountRequired

\* part_007 lines 167-218: the checks on the signed transaction
VerifyTransaction(signedTransaction, reqs) ==
  LET tx == parseSignedTransaction(signedTransaction) IN
  IF ~tx.parses
    THEN VerifyResponse(200, FALSE, Some(Msg("Failed to parse transaction")), TRUE)
  ELSE IF ~IsSome(reqs.payTo)
    \* payTo.toLowerCase() on undefined throws inside the inner try
    THEN VerifyResponse(200, FALSE, Some(Msg("Failed to parse transaction")), TRUE)
  ELSE IF ~RecipientMatches(tx, Get(reqs.payTo))
    THEN VerifyResponse(200, FALSE, Some(Msg("Recipient mismatch")), TRUE)
  ELSE IF ~AmountMatches(tx, reqs.maxAmountRequired)
    THEN VerifyResponse(200, FALSE, Some(Msg("Amount mismatch")), TRUE)
  ELSE IF ~IsSome(tx.from) \/ ~isValidAddress(Get(tx.from))
    THEN VerifyResponse(200, FALSE, Some(Msg("Invalid sender address")), TRUE)
  ELSE VerifyResponse(200, TRUE, None, TRUE)

\* a verify handler without the comparison of the payload's scheme and
\* network with the requirements
VerifyPayloadUnmatched(paymentHeader, reqs) ==
  LET text == B64Decode(paymentHeader) IN
  IF ~JSONParses(text) THEN Invalid(200, "Invalid JSON in payment payload")
  ELSE LET paymentPayload == JSONParse(text) IN
    IF paymentPayload.isNull \/ ~IsSome(paymentPayload.payload)
      THEN VerifyResponse(500, FALSE, Some(TypeErrorMsg), FALSE)
    ELSE IF Get(paymentPayload.payload) = 0
      THEN Invalid(200, "Invalid payload: missing signedTransaction")
    ELSE VerifyTransaction(Get(paymentPayload.payload), reqs)

\* part_007 lines 90-160: decode the header, match it to the requirements
VerifyPayload(paymentHeader, reqs) ==
  LET text == B64Decode(paymentHeader) IN
  IF ~JSONParses(text) THEN Invalid(200, "Invalid JSON in payment payload")
  ELSE LET paymentPayload == JSONParse(text) IN
    \* line 120: reading a property of null throws to the outer catch
    IF paymentPayload.isNull
      THEN VerifyResponse(500, FALSE, Some(TypeErrorMsg), FALSE)
    ELSE IF paymentPayload.scheme # reqs.scheme
      THEN Invalid(200, "Scheme mismatch")
    ELSE IF Some(paymentPayload.network) # reqs.network
      THEN Invalid(200, "Network mismatch")
    \* line 148: payload.signedTransaction of an absent payload throws
    ELSE IF ~IsSome(paymentPayload.payload)
      THEN VerifyResponse(500, FALSE, Some(TypeErrorMsg), FALSE)
    ELSE IF Get(paymentPayload.payload) = 0
      THEN Invalid(200, "Invalid payload: missing signedTransaction")
    ELSE VerifyTransaction(Get(paymentPayload.payload), reqs)

VerifyPOST(body) ==
  IF ~IsSome(body)
    THEN VerifyResponse(500, FALSE, Some(Msg("Unexpected end of JSON input")), FALSE)
  ELSE LET b == Get(body) IN
    \* line 37: the log statement reads paymentRequirements.scheme
    IF ~IsSome(b.paymentRequirements)
      THEN VerifyResponse(500, FALSE, Some(TypeErrorMsg), FALSE)
    ELSE LET reqs == Get(b.paymentRequirements) IN
      IF b.x402Version # X402_VERSION THEN Invalid(200, "Unsupported x402 version")
      ELSE IF ~IsSome(b.paymentHeader) \/ Get(b.paymentHeader) = <<>>
        THEN Invalid(400, "Missing paymentHeader or paymentRequirements")
      ELSE IF reqs.scheme # MONAD_SCHEME THEN Invalid(200, "Unsupported scheme")
      ELSE IF ~IsSome(reqs.network) \/ Get(reqs.network) = <<>>
              \/ ~StartsWithMonad(Get(reqs.network))
        THEN Invalid(200, "Invalid Monad network")
      ELSE VerifyPayload(Get(b.paymentHeader), reqs)

\* a verify handler that submits the transaction it has just accepted
VerifyBroadcastsAccepted(body) ==
  IF VerifyPOST(body).isValid
    THEN {Get(JSONParse(B64Decode(Get(Get(body).paymentHeader))).payload)}
    ELSE {}

\* the transactions the verify handler submits to the chain: none (it calls
\* parseSignedTransaction, which is offline, and no provider method)
VerifyBroadcasts(body) == {}

----------------------------------------------------------------------------
(* The chain, as submitTransaction and waitForTransaction see it           *)
(* (src/MonX402/lib/monad-utils.ts lines 21-39 and 105-125).  The chain    *)
(* state is the set of signed transactions the testnet node has accepted;  *)
(* MONAD_NETWORKS has no mainnet entry, so getMonadNetwork('mainnet')      *)
(* throws.                                                                 *)

MsgUnsupportedNetwork == Msg("Unsupported Monad network")
MsgMalformedTx == Msg("invalid raw transaction")
MsgInsufficientFunds == Msg("insufficient funds")
MsgProviderDown == Msg("could not detect network")

\* what the node answers to a transaction it has already received: the EVM
\* wording, and a wording that carries one of the markers settle looks for
ReplayMessages == { <<"nonce too low">>, <<"transaction", "already submitted">> }

\* the markers of part_007 lines 471-473
IsDuplicateMessage(message) ==
  \/ Includes(message, "SEQUENCE_NUMBER_TOO_OLD")
  \/ Includes(message, "INVALID_SEQ_NUMBER")
  \/ Includes(message, "already submitted")

\* the transaction is one a node can accept: well formed and signed
Broadcastable(signedTx) ==
  LET tx == SignedTxTable[signedTx] IN tx.parses /\ IsSome(tx.from)

\* the messages provider.broadcastTransaction may throw for signedTx; the
\* empty set when the node can only accept it
SubmitFaults(signedTx, networkType, seen) ==
  IF networkType = "mainnet" THEN {MsgUnsupportedNetwork}
  ELSE IF ~Broadcastable(signedTx) THEN {MsgMalformedTx}
  ELSE IF signedTx \in seen THEN ReplayMessages \cup {MsgProviderDown}
  ELSE {MsgInsufficientFunds, MsgProviderDown}

\* whether the node can accept signedTx now
SubmitAccepts(signedTx, networkType, seen) ==
  networkType = "testnet" /\ Broadcastable(signedTx) /\ signedTx \notin seen

\* what waitForTransaction can come back with
ReceiptOutcomes == {"success", "reverted", "none", "throws"}

----------------------------------------------------------------------------
(* Facilitator: POST /settle (src/unnamed/part_007 lines 270-492).         *)

SettleResponse(status, success, error, txHash, networkId) ==
  [status |-> status, success |-> success, error |-> error,
   txHash |-> txHash, networkId |-> networkId]

SettleFailure(status, message) == SettleResponse(status, FALSE, Some(message), None, None)

\* part_007 lines 464-491: the outer catch
SettleCatch(message) ==
  IF IsDuplicateMessage(message)
    THEN SettleFailure(409, Msg("Transaction already used"))
    ELSE SettleFailure(500, message)

\* a settle handler that answers a transaction the node already has as settled
SettleSubmitCatchIdempotent(message) ==
  IF IsDuplicateMessage(message)
    THEN SettleResponse(200, TRUE, None, Some(TxHash(1)), Some(MONAD_TESTNET))
    ELSE SettleFailure(500, message)

\* part_007 lines 404-413: the catch around submitTransaction
SettleSubmitCatch(message) == SettleFailure(500, message)

\* a settle handler that answers a missing receipt without the hash
SettleReceiptWithoutHash(outcome, signedTx, network) ==
  CASE outcome = "throws" -> SettleCatch(MsgProviderDown)
    [] outcome = "none" -> SettleFailure(200, Msg("Transaction receipt not found"))
    [] outcome = "reverted" ->
         SettleResponse(200, FALSE, Some(Msg("Transaction failed on blockchain")),
                        Some(TxHash(signedTx)), Some(network))
    [] OTHER ->
         SettleResponse(200, TRUE, None, Some(TxHash(signedTx)), Some(network))

\* part_007 lines 418-462: after the broadcast
SettleReceipt(outcome, signedTx, network) ==
  CASE outcome = "throws" -> SettleCatch(MsgProviderDown)
    [] outcome = "none" ->
         SettleResponse(200, FALSE, Some(Msg("Transaction receipt not found")),
                        Some(TxHash(signedTx)), Some(network))
    [] outcome = "reverted" ->
         SettleResponse(200, FALSE, Some(Msg("Transaction failed on blockchain")),
                        Some(TxHash(signedTx)), Some(network))
    [] OTHER ->
         SettleResponse(200, TRUE, None, Some(TxHash(signedTx)), Some(network))

\* the identifier of the chain whose RPC endpoint getMonadNetwork(networkType)
\* gives (monad-utils.ts lines 21-39; constants of part_003 lines 164-165)
ChainOf(networkType) ==
  IF networkType = "mainnet" THEN MONAD_MAINNET ELSE MONAD_TESTNET

\* part_007 line 337
NetworkType(network) == IF network = MONAD_MAINNET THEN "mainnet" ELSE "testnet"

\* the settlement is decided before any broadcast
Rejected(resp) ==
  [submit |-> FALSE, resp |-> resp, signedTransaction |-> 0, network |-> <<>>]

\* the handler goes on to submitTransaction
ToSubmit(signedTx, network) ==
  [submit |-> TRUE, resp |-> SettleFailure(0, <<>>),
   signedTransaction |-> signedTx, network |-> network]

\* part_007 lines 340-392: decode the header, extract the signed transaction
SettlePayload(paymentHeader, network) ==
  LET text == B64Decode(paymentHeader) IN
  IF ~JSONParses(text) THEN Rejected(SettleFailure(400, Msg("Invalid JSON")))
  ELSE LET paymentPayload == JSONParse(text) IN
    \* lines 375-377 read paymentPayload.scheme and Object.keys(payload)
    IF paymentPayload.isNull \/ ~IsSome(paymentPayload.payload)
      THEN Rejected(SettleCatch(TypeErrorMsg))
    ELSE IF Get(paymentPayload.payload) = 0
      THEN Rejected(SettleFailure(200, Msg("Invalid payload: missing signedTransaction")))
    ELSE ToSubmit(Get(paymentPayload.payload), network)

\* part_007 lines 276-338: the checks on the request body
SettleValidate(body) ==
  IF ~IsSome(body) THEN Rejected(SettleCatch(Msg("Unexpected end of JSON input")))
  ELSE LET b == Get(body) IN
    \* line 284: the log statement reads paymentRequirements.scheme
    IF ~IsSome(b.paymentRequirements) THEN Rejected(SettleCatch(TypeErrorMsg))
    ELSE LET reqs == Get(b.paymentRequirements) IN
      IF b.x402Version # X402_VERSION
        THEN Rejected(SettleFailure(200, Msg("Unsupported x402 version")))
      ELSE IF ~IsSome(b.paymentHeader) \/ Get(b.paymentHeader) = <<>>
        THEN Rejected(SettleFailure(400, Msg("Missing paymentHeader or paymentRequirements")))
      ELSE IF reqs.scheme # MONAD_SCHEME
        THEN Rejected(SettleFailure(200, Msg("Unsupported scheme")))
      ELSE IF ~IsSome(reqs.network) \/ Get(reqs.network) = <<>>
        THEN Rejected(SettleFailure(400, Msg("Network not specified in payment requirements")))
      ELSE SettlePayload(Get(b.paymentHeader), Get(reqs.network))

----------------------------------------------------------------------------
(* The X-Payment-Response codec: JSON.stringify({settlement}) writes the   *)
(* bytes '{', success, error, txHash, networkId, '}', a null field as 0.   *)

MessageTable ==
  << Msg("Transaction already used"), Msg("Transaction receipt not found"),
     Msg("Transaction failed on blockchain"), Msg("Unsupported x402 version"),
     Msg("Missing paymentHeader or paymentRequirements"), Msg("Unsupported scheme"),
     Msg("Network not specified in payment requirements"), Msg("Invalid JSON"),
     Msg("Invalid payload: missing signedTransaction"),
     Msg("Unexpected end of JSON input"), TypeErrorMsg, MsgUnsupportedNetwork,
     MsgMalformedTx, MsgInsufficientFunds, MsgProviderDown,
     <<"nonce too low">>, <<"transaction", "already submitted">> >>

SettlementStringify(settlement) ==
  <<ByteOpen,
    IF settlement.success THEN 1 ELSE 0,
    IF IsSome(settlement.error) THEN IndexOf(MessageTable, Get(settlement.error)) ELSE 0,
    IF IsSome(settlement.txHash) THEN Get(settlement.txHash)[2] ELSE 0,
    IF IsSome(settlement.networkId) THEN IndexOf(NetworkTable, Get(settlement.networkId)) ELSE 0,
    ByteClose>>

SettlementParses(t) ==
  /\ Len(t) = 6
  /\ t[1] = ByteOpen /\ t[6] = ByteClose
  /\ t[2] \in 0..1
  /\ t[3] \in 0..Len(MessageTable)
  /\ t[4] \in 0..Len(SignedTxTable)
  /\ t[5] \in 0..Len(NetworkTable)

\* the settlement object JSON.parse reads back (its HTTP status is not part
\* of the JSON body, so the parsed object has none)
SettlementParse(t) ==
  [success |-> t[2] = 1,
   error |-> IF t[3] = 0 THEN None ELSE Some(MessageTable[t[3]]),
   txHash |-> IF t[4] = 0 THEN None ELSE Some(TxHash(t[4])),
   networkId |-> IF t[5] = 0 THEN None ELSE Some(NetworkTable[t[5]])]

\* the body of a settle answer, as response.json() gives it to the middleware
SettlementBody(resp) ==
  [success |-> resp.success, error |-> resp.error,
   txHash |-> resp.txHash, networkId |-> resp.networkId]

\* src/lib/index.ts lines 244-252: null (None) when the header is missing
\* or does not decode
decodeXPaymentResponse(header) ==
  IF ~IsSome(header) \/ Get(header) = <<>> THEN None
  ELSE LET t == B64Decode(Get(header)) IN
    IF SettlementParses(t) THEN Some([settlement |-> SettlementParse(t)]) ELSE None

----------------------------------------------------------------------------
(* paymentMiddleware (src/lib/x402-middleware.ts).                         *)
(* The configuration is [recipientAddress, routes]; routes maps a route    *)
(* key (a pathname: a sequence of segments) to [price, network], network   *)
(* None when the RouteConfig omits it.                                     *)

PathWeather == <<"api", "protected", "weather">>
PathPremiumData == <<"api", "premium", "data">>
PathPremiumWildcard == <<"api", "premium", "*">>
PathPublic == <<"public">>

Pathnames == {PathWeather, PathPremiumData, PathPremiumWildcard, PathPublic}

\* lines 33-34: routes[pathname]
RouteLookup(routes, pathname) ==
  IF pathname \in DOMAIN routes THEN Some(routes[pathname]) ELSE None

\* lines 45-51, for a routeNetwork that is a string
MapNetwork(routeNetwork) ==
  IF routeNetwork = <<"mainnet">> THEN MONAD_MAINNET
  ELSE IF routeNetwork = <<"testnet">> THEN MONAD_TESTNET
  ELSE IF StartsWithMonad(routeNetwork) THEN routeNetwork
  ELSE <<"monad-">> \o routeNetwork

\* lines 73-84 (the descriptive fields, which no decision reads, are left out)
PaymentRequirements(routeConfig, network, recipientAddress, pathname) ==
  [scheme |-> MONAD_SCHEME, network |-> Some(network),
   maxAmountRequired |-> routeConfig.price, resource |-> pathname,
   payTo |-> Some(recipientAddress)]

\* a response of the middleware.  kind: "next" (NextResponse.next(), the
\* request goes on to the handler), "json" (NextResponse.json), "paid" (the
\* handler's response with the X-Payment-Response header), "throw" (the
\* middleware function itself throws)
Response(kind, status, error, message, accepts, paymentResponse) ==
  [kind |-> kind, status |-> status, error |-> error, message |-> message,
   x402Version |-> IF IsSome(accepts) THEN Some(X402_VERSION) ELSE None,
   accepts |-> accepts, paymentResponse |-> paymentResponse]

PassThrough == Response("next", 200, "", None, None, None)
Thrown == Response("throw", 0, "TypeError", Some(TypeErrorMsg), None, None)
JsonError(status, error, message) == Response("json", status, error, message, None, None)
Challenge(reqs) == Response("json", 402, "", None, Some(reqs), None)

PaidWithoutBase64(settlement) ==
  Response("paid", 200, "", None, None, Some(SettlementStringify(settlement)))

\* lines 207-232
Paid(settlement) ==
  Response("paid", 200, "", None, None,
           Some(B64Encode(SettlementStringify(settlement))))

\* the outcome of the synchronous part, lines 26-128: a response, or the
\* verify request to send
Respond(resp) == [call |-> FALSE, resp |-> resp, reqs |-> None]
CallVerify(reqs) == [call |-> TRUE, resp |-> PassThrough, reqs |-> Some(reqs)]

\* a middleware that remembers settled payments and lets a replayed one through
CheckPayloadCached(paymentHeader, reqs) ==
  LET text == B64Decode(paymentHeader) IN
  IF ~JSONParses(text)
    THEN Respond(JsonError(500, "Payment processing failed", Some(Msg("Unexpected token"))))
  ELSE LET paymentPayload == JSONParse(text) IN
    IF paymentPayload.isNull
      THEN Respond(JsonError(500, "Payment processing failed", Some(TypeErrorMsg)))
    ELSE IF paymentPayload.x402Version # X402_VERSION
      THEN Respond(JsonError(400, "Unsupported x402 version", None))
    ELSE IF paymentPayload.scheme # MONAD_SCHEME
      THEN Respond(JsonError(400, "Unsupported payment scheme", None))
    ELSE IF IsSome(paymentPayload.payload) /\ Get(paymentPayload.payload) \in chain
      THEN Respond(PassThrough)
    ELSE CallVerify(reqs)

\* lines 102-128: the middleware's own look at the header
CheckPayload(paymentHeader, reqs) ==
  LET text == B64Decode(paymentHeader) IN
  IF ~JSONParses(text)
    THEN Respond(JsonError(500, "Payment processing failed", Some(Msg("Unexpected token"))))
  ELSE LET paymentPayload == JSONParse(text) IN
    IF paymentPayload.isNull
      THEN Respond(JsonError(500, "Payment processing failed", Some(TypeErrorMsg)))
    ELSE IF paymentPayload.x402Version # X402_VERSION
      THEN Respond(JsonError(400, "Unsupported x402 version", None))
    ELSE IF paymentPayload.scheme # MONAD_SCHEME
      THEN Respond(JsonError(400, "Unsupported payment scheme", None))
    ELSE CallVerify(reqs)

\* lines 26-128
Receive(config, pathname, paymentHeader) ==
  LET found == RouteLookup(config.routes, pathname) IN
  IF ~IsSome(found) THEN Respond(PassThrough)
  ELSE LET routeConfig == Get(found) IN
    \* line 49: routeNetwork.startsWith on undefined throws, outside the try
    IF ~IsSome(routeConfig.network) THEN Respond(Thrown)
    ELSE IF config.recipientAddress = <<>>
      THEN Respond(JsonError(500, "Server configuration error", None))
    ELSE LET reqs == PaymentRequirements(routeConfig, MapNetwork(Get(routeConfig.network)),
                                         config.recipientAddress, pathname) IN
      IF ~IsSome(paymentHeader) \/ Get(paymentHeader) = <<>>
        THEN Respond(Challenge(reqs))
        ELSE CheckPayload(Get(paymentHeader), reqs)

\* lines 134-138 and 172-176: the body of the verify and of the settle request
FacilitatorRequest(paymentHeader, reqs) ==
  Some([x402Version |-> X402_VERSION, paymentHeader |-> paymentHeader,
        paymentRequirements |-> Some(reqs)])

\* lines 233-241: the catch, for a fault of fetch or of response.json()
TransportFault == JsonError(500, "Payment processing failed", Some(Msg("fetch failed")))

VerifyPassedAlways(verification) == TRUE

\* line 154: the verification passed
VerifyPassed(verification) == verification.isValid

\* lines 154-164
VerificationFailed(verification) ==
  JsonError(403, "Payment verification failed", verification.invalidReason)

AfterSettleIgnoringSuccess(settlement) == Paid(settlement)

AfterSettleFailureAs500(settlement) ==
  IF ~settlement.success
    THEN JsonError(500, "Payment settlement failed", settlement.error)
    ELSE Paid(settlement)

\* lines 192-232
AfterSettle(settlement) ==
  IF ~settlement.success
    THEN JsonError(402, "Payment settlement failed", settlement.error)
    ELSE Paid(settlement)

----------------------------------------------------------------------------
(* Inputs *)

\* configured prices: the canonical numeral of MaxPrice, and one written
\* with a leading zero
Prices == { BigIntToString(MaxPrice), <<"0">> \o BigIntToString(MaxPrice) }

\* RouteConfig.network: omitted, short names, a full identifier, another
\* environment, the empty string
RouteNetworks ==
  { None, Some(<<"testnet">>), Some(<<"mainnet">>), Some(MONAD_TESTNET),
    Some(<<"devnet">>), Some(<<>>) }

RouteKeys == {PathWeather, PathPremiumWildcard}

RouteConfig(price, network) == [price |-> price, network |-> network]

Configs ==
  { [recipientAddress |-> r, routes |-> [k \in {key} |-> RouteConfig(p, n)]] :
      r \in {<<>>, AddrPayee}, key \in RouteKeys, p \in Prices, n \in RouteNetworks }

GoodPayload(signedTx) == PaymentPayload(X402_VERSION, MONAD_SCHEME, MONAD_TESTNET, Some(signedTx))

\* the signed transactions sent to the seller side: the empty string and
\* every transaction of the first buyer (the second buyer's differ from
\* them in the sender alone)
PayloadTxs ==
  {0} \cup { k \in SignedTxs : SignedTxTable[k].from # Some(AddrBuyer2) }

Payloads ==
  { GoodPayload(k) : k \in PayloadTxs }
  \cup { PaymentPayload(X402_VERSION, MONAD_SCHEME, n, Some(1)) :
           n \in {MONAD_MAINNET, <<"monad-", "devnet">>, <<"monad-">>} }
  \cup { PaymentPayload(2, MONAD_SCHEME, MONAD_TESTNET, Some(1)),
         PaymentPayload(X402_VERSION, "exact", MONAD_TESTNET, Some(1)),
         PaymentPayload(X402_VERSION, MONAD_SCHEME, MONAD_TESTNET, None),
         JsonNull }

\* a character outside the base64 alphabet, such as '!'
B64Junk == 65

\* X-PAYMENT header values: absent, empty, every encoded payload, a string
\* of characters outside the alphabet, and a good header with such a
\* character in its middle
Headers ==
  { None, Some(<<>>), Some(<<B64Junk, B64Junk>>),
    Some(<<B64Junk>> \o EncodeHeader(GoodPayload(1))) }
  \cup { Some(EncodeHeader(p)) : p \in Payloads }

----------------------------------------------------------------------------
(* The state machine of one paymentMiddleware instance serving requests    *)
(* one after another against this repository's facilitator.                *)

Idle ==
  [pc |-> "idle", pathname |-> <<>>, paymentHeader |-> None, reqs |-> None,
   verification |-> None, settlement |-> None, submitted |-> None,
   response |-> None, verifyCalls |-> 0, settleCalls |-> 0, broadcasts |-> 0,
   waits |-> 0, transportFault |-> FALSE]

\* receipt: what waitForTransaction came back with, once it has
FacIdle == [pc |-> "idle", op |-> "", body |-> None, verification |-> None,
            settlement |-> None, submitted |-> None, fault |-> None,
            receipt |-> None]

\* one x402axios call: the requests it has sent (fetch calls), the
\* signatures it has made, its first response and what it returned or threw
AxIdle ==
  [pc |-> "idle", config |-> None, sent |-> <<>>, signatures |-> <<>>,
   first |-> None, second |-> None, reqs |-> None, wallet |-> None,
   result |-> None]

\* the requests paymentMiddleware is serving at the same time (each await of
\* the handler lets another request run), how many have arrived, and how
\* often each signed transaction has bought a pass to the handler
ParIdle ==
  [slot |-> [i \in 1..NumSlots |-> Idle], started |-> 0,
   served |-> [k \in SignedTxs |-> 0]]

BotIdle ==
  [pc |-> "idle", userAgent |-> <<>>, request |-> None, paymentHeader |-> None,
   botType |-> "", response |-> None, verifyCalls |-> 0, settleCalls |-> 0,
   config |-> None, facilitator |-> ""]

\* a middleware that calls settle a second time when the first call failed
FinishOrRetry(r, resp) ==
  IF resp.status = 402 /\ resp.error = "Payment settlement failed" /\ r.settleCalls < 2
    THEN [r EXCEPT !.pc = "settle"]
    ELSE [r EXCEPT !.pc = "done", !.response = Some(resp)]

\* the handler returns resp
Finish(r, resp) == [r EXCEPT !.pc = "done", !.response = Some(resp)]

\* fetch or response.json() throws: the catch of lines 233-241 answers
Fault(r) == [r EXCEPT !.pc = "done", !.response = Some(TransportFault),
                      !.transportFault = TRUE]

Init ==
  /\ cfg \in Configs
  /\ req = Idle
  /\ chain = {}
  /\ fac = FacIdle
  /\ bot = BotIdle
  /\ ax = AxIdle
  /\ par = ParIdle

\* a request arrives; lines 26-128 run
MwReceive ==
  /\ req.pc = "idle"
  /\ \E pathname \in Pathnames, paymentHeader \in Headers :
       LET out == Receive(cfg, pathname, paymentHeader)
           r == [req EXCEPT !.pathname = pathname, !.paymentHeader = paymentHeader,
                            !.reqs = out.reqs]
       IN req' = IF out.call THEN [r EXCEPT !.pc = "verify"] ELSE Finish(r, out.resp)
  /\ UNCHANGED <<cfg, chain, fac, bot, ax, par>>

\* lines 140-164: the verify call and its answer
MwVerify ==
  /\ req.pc = "verify"
  /\ LET r == [req EXCEPT !.verifyCalls = @ + 1] IN
     \/ req' = Fault(r)
     \/ LET v == VerifyPOST(FacilitatorRequest(req.paymentHeader, Get(req.reqs))) IN
        req' = IF VerifyPassed(v)
                 THEN [r EXCEPT !.pc = "settle", !.verification = Some(v)]
                 ELSE Finish([r EXCEPT !.verification = Some(v)], VerificationFailed(v))
  /\ chain' = chain \cup VerifyBroadcasts(FacilitatorRequest(req.paymentHeader, Get(req.reqs)))
  /\ UNCHANGED <<cfg, fac, bot, ax, par>>

\* lines 178-182 and the settle handler up to its broadcast
MwSettle ==
  /\ req.pc = "settle"
  /\ LET r == [req EXCEPT !.settleCalls = @ + 1]
         d == SettleValidate(FacilitatorRequest(req.paymentHeader, Get(req.reqs)))
         answered(s) == Finish([r EXCEPT !.settlement = Some(s)],
                               AfterSettle(SettlementBody(s)))
     IN
     \/ /\ req' = Fault(r)
        /\ UNCHANGED chain
     \/ /\ ~d.submit
        /\ req' = answered(d.resp)
        /\ UNCHANGED chain
     \/ /\ d.submit
        /\ \E m \in SubmitFaults(d.signedTransaction, NetworkType(d.network), chain) :
             req' = answered(SettleSubmitCatch(m))
        /\ UNCHANGED chain
     \/ /\ d.submit
        /\ SubmitAccepts(d.signedTransaction, NetworkType(d.network), chain)
        /\ chain' = chain \cup {d.signedTransaction}
        /\ req' = [r EXCEPT !.pc = "wait", !.submitted = Some(d.signedTransaction),
                            !.broadcasts = @ + 1]
  /\ UNCHANGED <<cfg, fac, bot, ax, par>>

\* the settle handler's wait for the receipt, its answer, lines 184-232
MwReceipt ==
  /\ req.pc = "wait"
  /\ \E outcome \in ReceiptOutcomes :
       LET s == SettleReceipt(outcome, Get(req.submitted),
                              Get(Get(req.reqs).network))
           r == [req EXCEPT !.waits = @ + 1]
       IN
       \/ req' = Finish([r EXCEPT !.settlement = Some(s)],
                        AfterSettle(SettlementBody(s)))
       \/ req' = Fault(r)
  /\ UNCHANGED <<cfg, chain, fac, bot, ax, par>>

\* the response is sent; the middleware keeps nothing of the request
MwNext ==
  /\ req.pc = "done"
  /\ req' = Idle
  /\ UNCHANGED <<cfg, chain, fac, bot, ax, par>>

Next == MwReceive \/ MwVerify \/ MwSettle \/ MwReceipt \/ MwNext

Spec == Init /\ [][Next]_vars

----------------------------------------------------------------------------
(* The facilitator's endpoints called directly (they are network-exposed): *)
(* any client may POST any body to /verify and /settle.                    *)

BaseRequirements ==
  [scheme |-> MONAD_SCHEME, network |-> Some(MONAD_TESTNET),
   maxAmountRequired |-> BigIntToString(MaxPrice), resource |-> PathWeather,
   payTo |-> Some(AddrPayee)]

RequirementsSet ==
  { [scheme |-> sc, network |-> n, maxAmountRequired |-> a, resource |-> PathWeather,
     payTo |-> t] :
      sc \in {MONAD_SCHEME, "exact"},
      n \in {None, Some(<<>>), Some(MONAD_TESTNET), Some(MONAD_MAINNET),
             Some(<<"monad-", "devnet">>), Some(<<"testnet">>)},
      a \in Prices \cup {BigIntToString(MaxPrice - 1)},
      t \in {None, Some(AddrPayee), Some(ToLowerCase(AddrPayee)), Some(AddrOther)} }

\* the headers sent with every requirement: the good transaction, its
\* recipient in another case, a wrong recipient, an overpayment, both wrong
KeyHeaders == { Some(EncodeHeader(GoodPayload(k))) : k \in {1, 2, 3, 6, 9} }

Body(version, paymentHeader, reqs) ==
  Some([x402Version |-> version, paymentHeader |-> paymentHeader,
        paymentRequirements |-> reqs])

\* a payment for another Monad environment, its requirements and its
\* payload agreeing on the network
DevnetBody ==
  Body(X402_VERSION,
       Some(EncodeHeader(PaymentPayload(X402_VERSION, MONAD_SCHEME,
                                        <<"monad-", "devnet">>, Some(1)))),
       Some([BaseRequirements EXCEPT !.network = Some(<<"monad-", "devnet">>)]))

Bodies ==
  {None, DevnetBody}
  \cup { Body(v, h, Some(BaseRequirements)) : v \in {X402_VERSION, 2}, h \in Headers }
  \cup { Body(X402_VERSION, h, r) :
           h \in KeyHeaders, r \in {None} \cup { Some(x) : x \in RequirementsSet } }

InitFacilitator ==
  /\ cfg = [recipientAddress |-> AddrPayee,
            routes |-> [k \in {PathWeather} |->
                          RouteConfig(BigIntToString(MaxPrice), Some(<<"testnet">>))]]
  /\ req = Idle
  /\ chain = {}
  /\ fac = FacIdle
  /\ bot = BotIdle
  /\ ax = AxIdle
  /\ par = ParIdle

\* POST /verify
FacVerify ==
  /\ fac.pc = "idle"
  /\ \E body \in Bodies :
       /\ fac' = [FacIdle EXCEPT !.pc = "done", !.op = "verify", !.body = body,
                                 !.verification = Some(VerifyPOST(body))]
       /\ chain' = chain \cup VerifyBroadcasts(body)
  /\ UNCHANGED <<cfg, req, bot, ax, par>>

\* POST /settle, up to the broadcast
FacSettle ==
  /\ fac.pc = "idle"
  /\ \E body \in Bodies :
       LET d == SettleValidate(body)
           f == [FacIdle EXCEPT !.op = "settle", !.body = body]
       IN
       \/ /\ ~d.submit
          /\ fac' = [f EXCEPT !.pc = "done", !.settlement = Some(d.resp)]
          /\ UNCHANGED chain
       \/ /\ d.submit
          /\ \E m \in SubmitFaults(d.signedTransaction, NetworkType(d.network), chain) :
               fac' = [f EXCEPT !.pc = "done", !.settlement = Some(SettleSubmitCatch(m)),
                                !.submitted = Some(d.signedTransaction),
                                !.fault = Some(m)]
          /\ UNCHANGED chain
       \/ /\ d.submit
          /\ SubmitAccepts(d.signedTransaction, NetworkType(d.network), chain)
          /\ chain' = chain \cup {d.signedTransaction}
          /\ fac' = [f EXCEPT !.pc = "wait", !.submitted = Some(d.signedTransaction)]
  /\ UNCHANGED <<cfg, req, bot, ax, par>>

\* POST /settle, from the wait for the receipt to the answer
FacReceipt ==
  /\ fac.pc = "wait"
  /\ \E outcome \in ReceiptOutcomes :
       LET reqs == Get(Get(fac.body).paymentRequirements) IN
       fac' = [fac EXCEPT !.pc = "done",
                 !.settlement = Some(SettleReceipt(outcome, Get(fac.submitted),
                                                   Get(reqs.network))),
                 !.fault = IF outcome = "throws" THEN Some(MsgProviderDown) ELSE None,
                 !.receipt = Some(outcome)]
  /\ UNCHANGED <<cfg, req, chain, bot, ax, par>>

FacNext ==
  /\ fac.pc = "done"
  /\ fac' = FacIdle
  /\ UNCHANGED <<cfg, req, chain, bot, ax, par>>

NextFacilitator == FacVerify \/ FacSettle \/ FacReceipt \/ FacNext

SpecFacilitator == InitFacilitator /\ [][NextFacilitator]_vars

----------------------------------------------------------------------------
(* The bot classifier (src/unnamed/part_001 lines 6-153).  Every pattern   *)
(* of BOT_PATTERNS and of getBotType is a literal with the i flag, so      *)
(* pattern.test(userAgent) is a case-insensitive substring test.           *)

Contains(s, sub) ==
  \E i \in 1..(Len(s) - Len(sub) + 1) : SubSeq(s, i, i + Len(sub) - 1) = sub

TestCaseSensitive(pattern, userAgent) == Contains(userAgent, pattern)

\* /pattern/i.test(userAgent)
Test(pattern, userAgent) == Contains(ToLowerCase(userAgent), ToLowerCase(pattern))

BOT_PATTERNS ==
  << <<"b", "o", "t">>,
     <<"c", "r", "a", "w", "l", "e", "r">>,
     <<"s", "p", "i", "d", "e", "r">>,
     <<"c", "r", "a", "w", "l", "i", "n", "g">>,
     <<"g", "o", "o", "g", "l", "e", "b", "o", "t">>,
     <<"b", "i", "n", "g", "b", "o", "t">>,
     <<"s", "l", "u", "r", "p">>,
     <<"d", "u", "c", "k", "d", "u", "c", "k", "b", "o", "t">>,
     <<"b", "a", "i", "d", "u", "s", "p", "i", "d", "e", "r">>,
     <<"y", "a", "n", "d", "e", "x", "b", "o", "t">>,
     <<"s", "o", "g", "o", "u">>,
     <<"e", "x", "a", "b", "o", "t">>,
     <<"f", "a", "c", "e", "b", "o", "t">>,
     <<"i", "a", "_", "a", "r", "c", "h", "i", "v", "e", "r">>,
     <<"G", "P", "T", "B", "o", "t">>,
     <<"C", "h", "a", "t", "G", "P", "T">>,
     <<"C", "l", "a", "u", "d", "e">>,
     <<"G", "o", "o", "g", "l", "e", "-", "E", "x", "t", "e", "n", "d", "e", "d">>,
     <<"a", "n", "t", "h", "r", "o", "p", "i", "c">>,
     <<"P", "e", "r", "p", "l", "e", "x", "i", "t", "y", "B", "o", "t">>,
     <<"C", "C", "B", "o", "t">>,
     <<"B", "y", "t", "e", "s", "p", "i", "d", "e", "r">>,
     <<"s", "c", "r", "a", "p", "y">>,
     <<"w", "g", "e", "t">>,
     <<"c", "u", "r", "l">>,
     <<"h", "t", "t", "p", "i", "e">>,
     <<"p", "y", "t", "h", "o", "n", "-", "r", "e", "q", "u", "e", "s", "t", "s">>,
     <<"g", "o", "-", "h", "t", "t", "p", "-", "c", "l", "i", "e", "n", "t">>,
     <<"j", "a", "v", "a">>,
     <<"o", "k", "h", "t", "t", "p">>,
     <<"a", "x", "i", "o", "s">>,
     <<"n", "o", "d", "e", "-", "f", "e", "t", "c", "h">>,
     <<"S", "c", "r", "e", "a", "m", "i", "n", "g", " ", "F", "r", "o", "g">>,
     <<"S", "e", "m", "r", "u", "s", "h">>,
     <<"A", "h", "r", "e", "f", "s">>,
     <<"M", "a", "j", "e", "s", "t", "i", "c">>,
     <<"M", "o", "z">>,
     <<"f", "a", "c", "e", "b", "o", "o", "k", "e", "x", "t", "e", "r", "n", "a", "l", "h", "i", "t">>,
     <<"T", "w", "i", "t", "t", "e", "r", "b", "o", "t">>,
     <<"L", "i", "n", "k", "e", "d", "I", "n", "B", "o", "t">>,
     <<"S", "l", "a", "c", "k", "b", "o", "t">>,
     <<"T", "e", "l", "e", "g", "r", "a", "m", "B", "o", "t">>,
     <<"W", "h", "a", "t", "s", "A", "p", "p">>,
     <<"D", "i", "s", "c", "o", "r", "d", "b", "o", "t">>,
     <<"H", "e", "a", "d", "l", "e", "s", "s", "C", "h", "r", "o", "m", "e">>,
     <<"P", "h", "a", "n", "t", "o", "m", "J", "S">>,
     <<"S", "e", "l", "e", "n", "i", "u", "m">>,
     <<"P", "u", "p", "p", "e", "t", "e", "e", "r">>,
     <<"P", "l", "a", "y", "w", "r", "i", "g", "h", "t">> >>

\* the if-chain of getBotType, in its order: <<pattern, label>>
BotLabels ==
  << <<<<"g", "o", "o", "g", "l", "e", "b", "o", "t">>, "Google Bot">>,
     <<<<"b", "i", "n", "g", "b", "o", "t">>, "Bing Bot">>,
     <<<<"y", "a", "n", "d", "e", "x">>, "Yandex Bot">>,
     <<<<"b", "a", "i", "d", "u">>, "Baidu Bot">>,
     <<<<"G", "P", "T", "B", "o", "t">>, "OpenAI GPTBot">>,
     <<<<"C", "l", "a", "u", "d", "e">>, "Anthropic Claude">>,
     <<<<"G", "o", "o", "g", "l", "e", "-", "E", "x", "t", "e", "n", "d", "e", "d">>, "Google Gemini">>,
     <<<<"P", "e", "r", "p", "l", "e", "x", "i", "t", "y">>, "Perplexity Bot">>,
     <<<<"f", "a", "c", "e", "b", "o", "o", "k", "e", "x", "t", "e", "r", "n", "a", "l", "h", "i", "t">>, "Facebook Bot">>,
     <<<<"T", "w", "i", "t", "t", "e", "r", "b", "o", "t">>, "Twitter Bot">>,
     <<<<"L", "i", "n", "k", "e", "d", "I", "n", "B", "o", "t">>, "LinkedIn Bot">>,
     <<<<"s", "c", "r", "a", "p", "y">>, "Scrapy">>,
     <<<<"w", "g", "e", "t">>, "Wget">>,
     <<<<"c", "u", "r", "l">>, "cURL">>,
     <<<<"p", "y", "t", "h", "o", "n", "-", "r", "e", "q", "u", "e", "s", "t", "s">>, "Python Requests">>,
     <<<<"H", "e", "a", "d", "l", "e", "s", "s", "C", "h", "r", "o", "m", "e">>, "Headless Chrome">>,
     <<<<"P", "u", "p", "p", "e", "t", "e", "e", "r">>, "Puppeteer">>,
     <<<<"P", "l", "a", "y", "w", "r", "i", "g", "h", "t">>, "Playwright">>,
     <<<<"S", "e", "m", "r", "u", "s", "h">>, "Semrush Bot">>,
     <<<<"A", "h", "r", "e", "f", "s">>, "Ahrefs Bot">>,
     <<<<"S", "c", "r", "e", "a", "m", "i", "n", "g", " ", "F", "r", "o", "g">>, "Screaming Frog">> >>

\* lines 74-82; accept is the set of media types the Accept header names
hasNoJavaScript(request) ==
  ~("text/html" \in request.accept) /\ ~("image/" \in request.accept)

\* lines 84-92
hasSuspiciousHeaders(request) ==
  ~request.acceptLanguage \/ ~request.acceptEncoding

MatchesPattern(userAgent) ==
  \E i \in 1..Len(BOT_PATTERNS) : Test(BOT_PATTERNS[i], userAgent)

\* lines 97-111; request is None when the caller passes none
isBot(userAgent, request) ==
  IF userAgent = <<>> THEN TRUE
  ELSE IF MatchesPattern(userAgent) THEN TRUE
  ELSE IF IsSome(request)
    THEN hasNoJavaScript(Get(request)) \/ hasSuspiciousHeaders(Get(request))
  ELSE FALSE

RECURSIVE FirstLabel(_, _)
FirstLabel(userAgent, i) ==
  IF i > Len(BotLabels) THEN "Bot"
  ELSE IF Test(BotLabels[i][1], userAgent) THEN BotLabels[i][2]
  ELSE FirstLabel(userAgent, i + 1)

getBotTypeGeneric(userAgent) ==
  IF userAgent = <<>> THEN "Unknown Bot" ELSE "Bot"

\* lines 116-153
getBotType(userAgent) ==
  IF userAgent = <<>> THEN "Unknown Bot" ELSE FirstLabel(userAgent, 1)

\* the browser User-Agent of the guide's example (docs/guides/universal-bot-protection.md line 169)
UABrowserDoc == <<"M", "o", "z", "i", "l", "l", "a", "/", "5", ".", "0", " ", ".", ".", ".", " ", "C", "h", "r", "o", "m", "e", "/", "1", "2", "0", ".", "0">>
\* a browser User-Agent written out
UABrowserLinux == <<"M", "o", "z", "i", "l", "l", "a", "/", "5", ".", "0", " ", "(", "X", "1", "1", ";", " ", "L", "i", "n", "u", "x", " ", "x", "8", "6", "_", "6", "4", ")", " ", "C", "h", "r", "o", "m", "e", "/", "1", "2", "0", ".", "0">>
\* a User-Agent no pattern matches
UAOpera == <<"O", "p", "e", "r", "a", "/", "9", ".", "8", "0">>
UACurl == <<"c", "u", "r", "l", "/", "7", ".", "6", "8", ".", "0">>
UAGooglebot == <<"G", "o", "o", "g", "l", "e", "b", "o", "t", "/", "2", ".", "1">>
UAGptBot == <<"G", "P", "T", "B", "o", "t", "/", "1", ".", "0">>
UAUpperSpider == <<"S", "P", "I", "D", "E", "R", " ", "1">>
UACrawler == <<"M", "y", "C", "r", "a", "w", "l", "e", "r">>
UAGooglebotLower == <<"g", "o", "o", "g", "l", "e", "b", "o", "t", "/", "2", ".", "1">>

UserAgents ==
  { <<>>, UABrowserDoc, UABrowserLinux, UAOpera, UACurl, UAGooglebot, UAGptBot,
    UAUpperSpider, UACrawler, UAGooglebotLower }

----------------------------------------------------------------------------
(* botProtectionMiddleware (src/unnamed/part_001 lines 197-293).           *)
(* A configuration is [enabled, price, recipientAddress, network,          *)
(* allowedBots, strictMode]; network and allowedBots are None when         *)
(* omitted.  A request is its User-Agent, the headers the behavioural      *)
(* checks read and its X-PAYMENT header.                                   *)

BotResponse(kind, status, text, accepts, botDetected, paid) ==
  [kind |-> kind, status |-> status, text |-> text, accepts |-> accepts,
   botDetected |-> botDetected, paid |-> paid]

\* NextResponse.next()
BotForward == BotResponse("next", 200, "", None, None, FALSE)

\* lines 232-253
BotChallenge(config, botType, url) ==
  BotResponse("response", 402, "", 
    Some([scheme |-> "exact",
          network |-> IF config.network = Some(<<"mainnet">>)
                        THEN MONAD_MAINNET ELSE MONAD_TESTNET,
          maxAmountRequired |-> config.price,
          payTo |-> config.recipientAddress,
          resource |-> url,
          botDetected |-> botType]),
    Some(botType), FALSE)

IsAllowedWholeName(config, userAgent) ==
  /\ IsSome(config.allowedBots)
  /\ \E i \in 1..Len(Get(config.allowedBots)) :
       userAgent = Get(config.allowedBots)[i]

\* lines 218-225
IsAllowed(config, userAgent) ==
  /\ IsSome(config.allowedBots)
  /\ Len(Get(config.allowedBots)) > 0
  /\ \E i \in 1..Len(Get(config.allowedBots)) :
       Contains(ToLowerCase(userAgent), ToLowerCase(Get(config.allowedBots)[i]))

BotRespond(resp, botType) == [call |-> FALSE, resp |-> resp, botType |-> botType]
BotCallVerify(botType) == [call |-> TRUE, resp |-> BotForward, botType |-> botType]

\* lines 199-254: userAgent is the header value, None when the request has none
BotReceive(config, userAgentHeader, request, paymentHeader, url) ==
  LET userAgent == IF IsSome(userAgentHeader) THEN Get(userAgentHeader) ELSE <<>> IN
  IF ~config.enabled THEN BotRespond(BotForward, "")
  ELSE IF ~(IF config.strictMode THEN isBot(userAgent, Some(request))
                                 ELSE isBot(userAgent, None))
    THEN BotRespond(BotForward, "")
  ELSE LET botType == getBotType(userAgent) IN
    IF IsAllowed(config, userAgent) THEN BotRespond(BotForward, botType)
    ELSE IF ~IsSome(paymentHeader) \/ Get(paymentHeader) = <<>>
      THEN BotRespond(BotChallenge(config, botType, url), botType)
    ELSE BotCallVerify(botType)

\* lines 259-268 as this repository's /verify reads them: the body carries
\* payment, expectedAmount, expectedRecipient and network, and none of
\* x402Version, paymentHeader, paymentRequirements
BotVerifyBody ==
  Some([x402Version |-> 0, paymentHeader |-> None, paymentRequirements |-> None])

\* lines 270-291, for an answer with HTTP status `status` whose JSON body
\* has the field valid (absent: FALSE)
BotAfterVerify(status, valid, botType) ==
  IF ~(status \in 200..299) THEN BotResponse("response", 402, "Payment verification failed", None, None, FALSE)
  ELSE IF ~valid THEN BotResponse("response", 402, "Invalid payment", None, None, FALSE)
  ELSE BotResponse("next", 200, "", None, Some(botType), TRUE)

\* lines 288-291
BotFault == BotResponse("response", 500, "Payment verification failed", None, None, FALSE)

BotConfigs ==
  { [enabled |-> e, price |-> BigIntToString(MaxPrice), recipientAddress |-> AddrPayee,
     network |-> n, allowedBots |-> a, strictMode |-> st] :
      e \in BOOLEAN, st \in BOOLEAN,
      n \in {None, Some(<<"testnet">>), Some(<<"mainnet">>)},
      a \in {None, Some(<<>>), Some(<<UAGooglebot>>),
             Some(<< <<"G", "o", "o", "g", "l", "e", "b", "o", "t">>,
                     <<"B", "i", "n", "g", "b", "o", "t">> >>)} }

\* the headers hasNoJavaScript and hasSuspiciousHeaders read
BotRequests ==
  { [accept |-> a, acceptLanguage |-> l, acceptEncoding |-> e] :
      a \in {{}, {"text/html", "image/"}, {"application/json"}},
      l \in BOOLEAN, e \in BOOLEAN }

InitBot ==
  /\ cfg = [recipientAddress |-> AddrPayee,
            routes |-> [k \in {PathWeather} |->
                          RouteConfig(BigIntToString(MaxPrice), Some(<<"testnet">>))]]
  /\ req = Idle
  /\ chain = {}
  /\ fac = FacIdle
  /\ \E c \in BotConfigs : bot = [BotIdle EXCEPT !.config = Some(c)]
  /\ ax = AxIdle
  /\ par = ParIdle

BotArrive ==
  /\ bot.pc = "idle"
  /\ \E ua \in {None} \cup { Some(u) : u \in UserAgents }, request \in BotRequests,
        paymentHeader \in {None, Some(<<>>), Some(EncodeHeader(GoodPayload(1)))} :
       LET out == BotReceive(Get(bot.config), ua, request, paymentHeader, PathPublic)
           b == [bot EXCEPT !.userAgent = IF IsSome(ua) THEN Get(ua) ELSE <<>>,
                            !.request = Some(request),
                            !.paymentHeader = paymentHeader, !.botType = out.botType]
       IN bot' = IF out.call THEN [b EXCEPT !.pc = "verify"]
                             ELSE [b EXCEPT !.pc = "done", !.response = Some(out.resp)]
  /\ UNCHANGED <<cfg, req, chain, fac, ax, par>>

\* the call of the facilitator's /verify and what follows it.  The
\* facilitator at config.facilitatorUrl is this repository's, or one that
\* answers with the VerificationResponse of lines 166-169 (valid, and no
\* field the repository's answer has)
BotVerify ==
  /\ bot.pc = "verify"
  /\ LET b == [bot EXCEPT !.pc = "done", !.verifyCalls = @ + 1]
         v == VerifyPOST(BotVerifyBody)
     IN
     \/ bot' = [b EXCEPT !.response = Some(BotFault)]
     \/ bot' = [b EXCEPT !.facilitator = "repository",
                         !.response = Some(BotAfterVerify(v.status, FALSE, bot.botType))]
     \/ \E valid \in BOOLEAN :
          bot' = [b EXCEPT !.facilitator = "other",
                           !.response = Some(BotAfterVerify(200, valid, bot.botType))]
  /\ UNCHANGED <<cfg, req, chain, fac, ax, par>>

BotNext ==
  /\ bot.pc = "done"
  /\ bot' = [BotIdle EXCEPT !.config = bot.config]
  /\ UNCHANGED <<cfg, req, chain, fac, ax, par>>

NextBot == BotArrive \/ BotVerify \/ BotNext

SpecBot == InitBot /\ [][NextBot]_vars

----------------------------------------------------------------------------
(* x402axios (src/lib/index.ts lines 257-529): one call of the buyer's     *)
(* client.  A configuration is [url, baseURL, method, data, headers,       *)
(* privateKey, wallet, withCredentials]; baseURL, data, privateKey and     *)
(* wallet are None when absent.  A wallet is the private key it holds.     *)

PrivateKeys == {"key1", "key2"}

\* wallet.address: the address of the account a private key controls
WalletAddress(privateKey) == IF privateKey = "key1" THEN AddrSender ELSE AddrBuyer2

\* lines 257-279 (params are left out: no configuration of the model has any)
buildURL(config) ==
  IF IsSome(config.baseURL) THEN <<Get(config.baseURL), "/", config.url>>
  ELSE <<config.url>>

\* lines 284-299: the default transformation, JSON.stringify(data)
transformRequestData(data, config) == <<"json", data>>

OtherConfigWhole(finalConfig) == finalConfig

\* lines 325-336: otherConfig, what the destructuring leaves
OtherConfig(finalConfig) == [withCredentials |-> finalConfig.withCredentials]

\* lines 343-355: the RequestInit of the initial request
RequestInit(finalConfig) ==
  [method |-> finalConfig.method,
   headers |-> [contentType |-> "application/json", custom |-> finalConfig.headers,
                xPayment |-> None],
   rest |-> OtherConfig(finalConfig),
   body |-> IF IsSome(finalConfig.data) /\ finalConfig.method \in {"POST", "PUT", "PATCH"}
              THEN Some(transformRequestData(Get(finalConfig.data), finalConfig))
              ELSE None]

\* lines 474-480: the RequestInit of the retry
PaidInit(init, paymentHeader) ==
  [init EXCEPT !.headers.xPayment = Some(paymentHeader)]

\* a fetch call: what goes over the network
Fetch(url, init) == [url |-> url, init |-> init]

\* a response of the server: readable is FALSE when response.json() throws
AxResponse(status, readable, accepts, paymentResponse) ==
  [status |-> status, readable |-> readable, accepts |-> accepts,
   paymentResponse |-> paymentResponse]

\* what the call gives its caller
AxReturned(response, paymentInfo) ==
  [kind |-> "response", status |-> response.status, message |-> "",
   paymentInfo |-> paymentInfo]
AxThrown(message) ==
  [kind |-> "throw", status |-> 0, message |-> message, paymentInfo |-> None]

PaymentRequiredLoose(status) == status >= 400

\* line 382: the response asks for a payment
PaymentRequired(status) == status = 402

\* lines 418-422
AxNetwork(networkId) == IF networkId = MONAD_MAINNET THEN "mainnet" ELSE "testnet"

\* lines 396-452: from the 402 body to the wallet, or the error thrown.
\* createMonadWallet and buildTransferTransaction call getMonadNetwork,
\* which throws for 'mainnet'.
AxPrepare(config, accepts) ==
  IF ~IsSome(accepts.network) THEN AxThrown("Network not specified in 402 payment requirements")
  ELSE IF ~IsSome(accepts.payTo) \/ ~IsSome(accepts.maxAmountRequired)
    THEN AxThrown("Invalid 402 response: missing payment requirements")
  ELSE IF ~IsSome(config.wallet) /\ ~IsSome(config.privateKey)
    THEN AxThrown("Either privateKey or wallet must be provided")
  ELSE IF ~IsSome(config.wallet) /\ AxNetwork(Get(accepts.network)) = "mainnet"
    THEN AxThrown("Unsupported Monad network")
  ELSE IF (IF IsSome(accepts.scheme) THEN Get(accepts.scheme) ELSE "exact") # MONAD_SCHEME
    THEN AxThrown("Unsupported payment scheme")
  ELSE IF AxNetwork(Get(accepts.network)) = "mainnet"
    THEN AxThrown("Unsupported Monad network")
  ELSE [kind |-> "pay", status |-> 0, message |-> "", paymentInfo |-> None]

\* lines 426-429: the wallet that signs
AxWallet(config) ==
  IF IsSome(config.wallet) THEN Get(config.wallet) ELSE Get(config.privateKey)

\* lines 441-446 and 80-93: the transfer the wallet is asked to sign
buildTransferTransaction(from, to, amount) ==
  Tx(Some(from), Some(to), DecimalValue(amount))

\* wallet.signTransaction: the signed transaction
signTransaction(wallet, transaction) == IndexOf(SignedTxTable, transaction)

\* lines 460-471: the X-PAYMENT header of the retry
AxPaymentHeader(accepts, signedTx) ==
  EncodeHeader(PaymentPayload(X402_VERSION, MONAD_SCHEME, Get(accepts.network),
                              Some(signedTx)))

\* lines 499-516
AxPaymentInfo(response, accepts) ==
  LET decoded == decodeXPaymentResponse(response.paymentResponse) IN
  IF IsSome(decoded) /\ IsSome(Get(decoded).settlement.txHash)
    THEN Some([transactionHash |-> Get(Get(decoded).settlement.txHash),
               amount |-> Get(accepts.maxAmountRequired),
               recipient |-> Get(accepts.payTo),
               settled |-> Get(decoded).settlement.success])
    ELSE None

AxConfigs ==
  { [url |-> "/api/premium/data", baseURL |-> b, method |-> m, data |-> d,
     headers |-> {"x-client"}, privateKey |-> k, wallet |-> w,
     withCredentials |-> TRUE] :
      b \in {None, Some("https://api.example.com")}, m \in {"GET", "POST"},
      d \in {None, Some("data")},
      k \in {None} \cup { Some(x) : x \in PrivateKeys },
      w \in {None, Some("key2")} }

\* the accepts[0] of a 402; all fields None when the body has none of them
AxAccepts ==
  { [scheme |-> sc, network |-> n, payTo |-> t, maxAmountRequired |-> a] :
      sc \in {None, Some(MONAD_SCHEME), Some("exact")},
      n \in {None, Some(MONAD_TESTNET), Some(MONAD_MAINNET)},
      t \in {None, Some(AddrPayee), Some(AddrOther)},
      a \in {None, Some(BigIntToString(MaxPrice)), Some(BigIntToString(MaxPrice + 1))} }

NoAccepts == [scheme |-> None, network |-> None, payTo |-> None, maxAmountRequired |-> None]

SettledHeader ==
  Some(B64Encode(SettlementStringify(
    SettlementBody(SettleResponse(200, TRUE, None, Some(TxHash(1)), Some(MONAD_TESTNET))))))

AxResponses ==
  { AxResponse(st, r, NoAccepts, h) :
      st \in {200, 402, 403, 500}, r \in BOOLEAN, h \in {None, SettledHeader} }
  \cup { AxResponse(402, TRUE, a, None) : a \in AxAccepts }

InitAxios ==
  /\ cfg = [recipientAddress |-> AddrPayee,
            routes |-> [k \in {PathWeather} |->
                          RouteConfig(BigIntToString(MaxPrice), Some(<<"testnet">>))]]
  /\ req = Idle
  /\ chain = {}
  /\ fac = FacIdle
  /\ bot = BotIdle
  /\ ax = AxIdle
  /\ par = ParIdle

\* lines 316-363: the call, up to the first fetch
AxCall ==
  /\ ax.pc = "idle"
  /\ \E config \in AxConfigs :
       ax' = [AxIdle EXCEPT !.pc = "first", !.config = Some(config),
                !.sent = <<Fetch(buildURL(config), RequestInit(config))>>]
  /\ UNCHANGED <<cfg, req, chain, fac, bot, par>>

\* lines 363-452: the first response, and what the call makes of it
AxFirst ==
  /\ ax.pc = "first"
  /\ \/ ax' = [ax EXCEPT !.pc = "done", !.result = Some(AxThrown("fetch failed"))]
     \/ \E response \in AxResponses :
          LET a == [ax EXCEPT !.first = Some(response)]
              config == Get(ax.config)
          IN
          ax' = IF ~response.readable
                  THEN [a EXCEPT !.pc = "done", !.result = Some(AxThrown("Unexpected token"))]
                ELSE IF ~PaymentRequired(response.status)
                  THEN [a EXCEPT !.pc = "done", !.result = Some(AxReturned(response, None))]
                ELSE LET out == AxPrepare(config, response.accepts) IN
                  IF out.kind = "throw"
                    THEN [a EXCEPT !.pc = "done", !.result = Some(out)]
                    ELSE [a EXCEPT !.pc = "pay", !.reqs = Some(response.accepts),
                                   !.wallet = Some(AxWallet(config))]
  /\ UNCHANGED <<cfg, req, chain, fac, bot, par>>

\* lines 441-482: build the transfer, sign it, send the retry
AxPay ==
  /\ ax.pc = "pay"
  /\ LET config == Get(ax.config)
         accepts == Get(ax.reqs)
         wallet == Get(ax.wallet)
         transaction == buildTransferTransaction(WalletAddress(wallet),
                          Get(accepts.payTo), Get(accepts.maxAmountRequired))
         signedTx == signTransaction(wallet, transaction)
     IN
     \* provider.getFeeData or getTransactionCount fails
     \/ ax' = [ax EXCEPT !.pc = "done", !.result = Some(AxThrown("could not detect network"))]
     \/ ax' = [ax EXCEPT !.pc = "retry",
                 !.signatures = Append(@, [wallet |-> wallet, signedTx |-> signedTx]),
                 !.sent = Append(@, Fetch(buildURL(config),
                             PaidInit(RequestInit(config), AxPaymentHeader(accepts, signedTx))))]
  /\ UNCHANGED <<cfg, req, chain, fac, bot, par>>

\* lines 482-528: the retry's response
AxRetry ==
  /\ ax.pc = "retry"
  /\ \/ ax' = [ax EXCEPT !.pc = "done", !.result = Some(AxThrown("fetch failed"))]
     \/ \E response \in AxResponses :
          ax' = [ax EXCEPT !.pc = "done", !.second = Some(response),
                   !.result = IF ~response.readable
                                THEN Some(AxThrown("Unexpected token"))
                                ELSE Some(AxReturned(response,
                                            AxPaymentInfo(response, Get(ax.reqs))))]
  /\ UNCHANGED <<cfg, req, chain, fac, bot, par>>

AxNext ==
  /\ ax.pc = "done"
  /\ ax' = AxIdle
  /\ UNCHANGED <<cfg, req, chain, fac, bot, par>>

NextAxios == AxCall \/ AxFirst \/ AxPay \/ AxRetry \/ AxNext

SpecAxios == InitAxios /\ [][NextAxios]_vars

----------------------------------------------------------------------------
(* paymentMiddleware serving several requests at once: the handler is an   *)
(* async function, so the requests interleave at its awaits (the fetch of  *)
(* /verify, the fetch of /settle); the settle handler interleaves at its   *)
(* own awaits (submitTransaction, waitForTransaction).  The chain is the   *)
(* only state the requests share.                                          *)

\* the headers the concurrent requests carry: two good payments
ParHeaders == { Some(EncodeHeader(GoodPayload(k))) : k \in {1, 2} }

\* the request of slot i is answered with resp
ParFinish(i, r, resp) ==
  [par EXCEPT !.slot[i] = Finish(r, resp),
              !.served = IF resp.kind = "paid"
                           THEN [@ EXCEPT ![Get(JSONParse(B64Decode(
                                              Get(r.paymentHeader))).payload)] = @ + 1]
                           ELSE @]

InitConcurrent ==
  /\ cfg = [recipientAddress |-> AddrPayee,
            routes |-> [k \in {PathWeather} |->
                          RouteConfig(BigIntToString(MaxPrice), Some(<<"testnet">>))]]
  /\ req = Idle
  /\ chain = {}
  /\ fac = FacIdle
  /\ bot = BotIdle
  /\ ax = AxIdle
  /\ par = ParIdle

\* x402-middleware.ts lines 26-128 for a request that arrives in slot i
ParReceive(i) ==
  /\ par.slot[i].pc = "idle"
  /\ par.started < MaxRequests
  /\ \E paymentHeader \in ParHeaders :
       LET out == Receive(cfg, PathWeather, paymentHeader)
           r == [Idle EXCEPT !.pathname = PathWeather, !.paymentHeader = paymentHeader,
                             !.reqs = out.reqs]
       IN par' = IF out.call
                   THEN [par EXCEPT !.slot[i] = [r EXCEPT !.pc = "verify"],
                                    !.started = @ + 1]
                   ELSE [ParFinish(i, r, out.resp) EXCEPT !.started = @ + 1]
  /\ UNCHANGED <<cfg, req, chain, fac, bot, ax>>

\* lines 140-164
ParVerify(i) ==
  /\ par.slot[i].pc = "verify"
  /\ LET q == par.slot[i]
         r == [q EXCEPT !.verifyCalls = @ + 1]
         v == VerifyPOST(FacilitatorRequest(q.paymentHeader, Get(q.reqs)))
     IN
     \/ par' = [par EXCEPT !.slot[i] = Fault(r)]
     \/ par' = IF VerifyPassed(v)
                 THEN [par EXCEPT !.slot[i] = [r EXCEPT !.pc = "settle",
                                                        !.verification = Some(v)]]
                 ELSE ParFinish(i, [r EXCEPT !.verification = Some(v)],
                                VerificationFailed(v))
  /\ UNCHANGED <<cfg, req, chain, fac, bot, ax>>

\* lines 178-182 and the settle handler up to its broadcast
ParSettle(i) ==
  /\ par.slot[i].pc = "settle"
  /\ LET q == par.slot[i]
         r == [q EXCEPT !.settleCalls = @ + 1]
         d == SettleValidate(FacilitatorRequest(q.paymentHeader, Get(q.reqs)))
         answered(s) == ParFinish(i, [r EXCEPT !.settlement = Some(s)],
                                  AfterSettle(SettlementBody(s)))
     IN
     \/ /\ par' = [par EXCEPT !.slot[i] = Fault(r)]
        /\ UNCHANGED chain
     \/ /\ ~d.submit
        /\ par' = answered(d.resp)
        /\ UNCHANGED chain
     \/ /\ d.submit
        /\ \E m \in SubmitFaults(d.signedTransaction, NetworkType(d.network), chain) :
             par' = answered(SettleSubmitCatch(m))
        /\ UNCHANGED chain
     \/ /\ d.submit
        /\ SubmitAccepts(d.signedTransaction, NetworkType(d.network), chain)
        /\ chain' = chain \cup {d.signedTransaction}
        /\ par' = [par EXCEPT !.slot[i] =
                     [r EXCEPT !.pc = "wait", !.submitted = Some(d.signedTransaction),
                               !.broadcasts = @ + 1]]
  /\ UNCHANGED <<cfg, req, fac, bot, ax>>

\* the settle handler's wait for the receipt and lines 184-232
ParReceipt(i) ==
  /\ par.slot[i].pc = "wait"
  /\ \E outcome \in ReceiptOutcomes :
       LET q == par.slot[i]
           s == SettleReceipt(outcome, Get(q.submitted), Get(Get(q.reqs).network))
           r == [q EXCEPT !.waits = @ + 1]
       IN
       \/ par' = ParFinish(i, [r EXCEPT !.settlement = Some(s)],
                           AfterSettle(SettlementBody(s)))
       \/ par' = [par EXCEPT !.slot[i] = Fault(r)]
  /\ UNCHANGED <<cfg, req, chain, fac, bot, ax>>

\* the response is sent
ParNext(i) ==
  /\ par.slot[i].pc = "done"
  /\ par' = [par EXCEPT !.slot[i] = Idle]
  /\ UNCHANGED <<cfg, req, chain, fac, bot, ax>>

ParStep ==
  \E i \in 1..NumSlots :
    ParReceive(i) \/ ParVerify(i) \/ ParSettle(i) \/ ParReceipt(i) \/ ParNext(i)

NextConcurrent == ParStep

SpecConcurrent == InitConcurrent /\ [][NextConcurrent]_vars

----------------------------------------------------------------------------
(* Properties of paymentMiddleware; specification Spec                     *)

\* the request went on to the route handler
HandlerReached == req.pc = "done" /\ Get(req.response).kind \in {"next", "paid"}

\* the requested pathname has an entry in the route table
OnConfiguredRoute == IsSome(RouteLookup(cfg.routes, req.pathname))

VerifiedAndSettled ==
  /\ req.verifyCalls = 1 /\ req.settleCalls = 1
  /\ IsSome(req.verification) /\ Get(req.verification).isValid
  /\ IsSome(req.settlement) /\ Get(req.settlement).success

C2_InvalidVerifyIs403WithoutSettle ==
  /\ (IsSome(req.verification) /\ ~Get(req.verification).isValid) =>
       /\ req.pc = "done"
       /\ Get(req.response).kind = "json"
       /\ Get(req.response).status = 403
       /\ Get(req.response).message = Get(req.verification).invalidReason
       /\ req.settleCalls = 0 /\ req.broadcasts = 0
  /\ (req.pc \in {"settle", "wait"} \/ req.settleCalls > 0) =>
       (IsSome(req.verification) /\ Get(req.verification).isValid)

C2_Witness ==
  /\ req.pc = "done"
  /\ IsSome(req.verification) /\ ~Get(req.verification).isValid
  /\ Get(req.verification).invalidReason = Some(Msg("Recipient mismatch"))
  /\ Get(req.response).status = 403

\* C3 (as stated): a request to a protected route without X-PAYMENT, on a
\* middleware with a recipient address, is answered 402 with x402Version 1
\* and accepts[0] carrying the route's price and the recipient, and the
\* facilitator is not called.
C3_ChallengeWithoutHeader ==
  (req.pc = "done" /\ OnConfiguredRoute /\ req.paymentHeader = None
     /\ cfg.recipientAddress # <<>>) =>
    LET r == Get(req.response) IN
      /\ r.kind = "json" /\ r.status = 402
      /\ r.x402Version = Some(X402_VERSION)
      /\ IsSome(r.accepts)
      /\ Get(r.accepts).maxAmountRequired = cfg.routes[req.pathname].price
      /\ Get(r.accepts).payTo = Some(cfg.recipientAddress)
      /\ req.verifyCalls = 0 /\ req.settleCalls = 0

\* C4: on the success path the X-Payment-Response header decodes (base64,
\* then JSON) to {settlement: S} with S the object settle returned, S.success
\* true and S.txHash present.
C4_PaymentResponseDecodes ==
  (req.pc = "done" /\ Get(req.response).kind = "paid") =>
    LET d == decodeXPaymentResponse(Get(req.response).paymentResponse) IN
      /\ IsSome(d)
      /\ Get(d).settlement = SettlementBody(Get(req.settlement))
      /\ Get(d).settlement.success
      /\ IsSome(Get(d).settlement.txHash)

C4_Witness ==
  /\ req.pc = "done" /\ Get(req.response).kind = "paid"
  /\ decodeXPaymentResponse(Get(req.response).paymentResponse) =
       Some([settlement |-> [success |-> TRUE, error |-> None,
                             txHash |-> Some(TxHash(Get(req.submitted))),
                             networkId |-> Get(req.reqs).network]])

\* the X-PAYMENT header is one the middleware cannot parse into a payload
HeaderUnparsable ==
  /\ IsSome(req.paymentHeader)
  /\ LET text == B64Decode(Get(req.paymentHeader)) IN
       ~JSONParses(text) \/ JSONParse(text).isNull

SettleFailureIs402 ==
  (req.pc = "done" /\ IsSome(req.settlement) /\ ~Get(req.settlement).success) =>
    /\ Get(req.response).kind = "json"
    /\ Get(req.response).status = 402
    /\ Get(req.response).message = Get(req.settlement).error

\* C5 (as stated): a settle answer with success = false is answered 402 with
\* the settlement error, and only transport or parsing faults are answered
\* 500.
C5_Only_Faults_Are_500 ==
  /\ SettleFailureIs402
  /\ (req.pc = "done" /\ Get(req.response).status = 500) =>
       (req.transportFault \/ HeaderUnparsable)

\* C5 (amended): a settle answer with success = false is answered 402 with
\* the settlement error; a 500 is answered only for a transport or parsing
\* fault, or for a middleware configured with an empty recipient address.
C5_Faults_Or_Configuration_Are_500 ==
  /\ SettleFailureIs402
  /\ (req.pc = "done" /\ Get(req.response).status = 500) =>
       (req.transportFault \/ HeaderUnparsable \/ cfg.recipientAddress = <<>>)

C5_Witness ==
  /\ req.pc = "done" /\ IsSome(req.settlement) /\ ~Get(req.settlement).success
  /\ Get(req.settlement).status = 500
  /\ Get(req.response).status = 402
  /\ Get(req.response).message = Some(MsgInsufficientFunds)

\* a route key covers a pathname: equal, or equal up to a trailing '*'
\* segment that stands for the rest of the pathname
Covers(key, pathname) ==
  \/ key = pathname
  \/ /\ Len(key) >= 1 /\ key[Len(key)] = "*"
     /\ Len(pathname) >= Len(key)
     /\ SubSeq(pathname, 1, Len(key) - 1) = SubSeq(key, 1, Len(key) - 1)

Covered == \E key \in DOMAIN cfg.routes : Covers(key, req.pathname)

\* C6 (as stated): a path that no route key covers is forwarded with no
\* payment check, and a path that a route key covers (a wildcard key
\* included) is never forwarded without a verified and settled payment.
C6_CoveredPathsNeedPayment ==
  /\ (req.pc = "done" /\ ~Covered) =>
       (Get(req.response) = PassThrough /\ req.verifyCalls = 0 /\ req.settleCalls = 0)
  /\ (Covered /\ HandlerReached) => VerifiedAndSettled

\* the request is one the middleware sends on to the facilitator: a
\* configured route with network and recipient, and a header that decodes to
\* a version 1 'evm-transfer' payload
ForFacilitator ==
  /\ OnConfiguredRoute
  /\ IsSome(cfg.routes[req.pathname].network) /\ cfg.recipientAddress # <<>>
  /\ IsSome(req.paymentHeader) /\ Get(req.paymentHeader) # <<>>
  /\ ~HeaderUnparsable
  /\ LET p == JSONParse(B64Decode(Get(req.paymentHeader))) IN
       p.x402Version = 1 /\ p.scheme = "evm-transfer"

\* the signed transaction of the request's header is one the chain has
\* already accepted
Replayed ==
  LET p == JSONParse(B64Decode(Get(req.paymentHeader))) IN
    IsSome(p.payload) /\ Get(p.payload) \in chain

\* the answers of the facilitator to this request decide its outcome
OutcomeFromAnswers ==
  IF req.transportFault THEN TransportFault
  ELSE IF ~Get(req.verification).isValid
    THEN JsonError(403, "Payment verification failed",
                   Get(req.verification).invalidReason)
  ELSE IF ~Get(req.settlement).success
    THEN JsonError(402, "Payment settlement failed", Get(req.settlement).error)
  ELSE Paid(SettlementBody(Get(req.settlement)))

\* C17: whatever requests came before, a request the middleware sends on to
\* the facilitator (a replayed X-PAYMENT header included) is verified by one
\* fresh verify call and, when valid, settled by one fresh settle call, and
\* its outcome is decided by the facilitator's answers to it alone.
C17_EveryRequestVerifiedAfresh ==
  (req.pc = "done" /\ ForFacilitator) =>
    /\ req.verifyCalls = 1
    /\ (IsSome(req.verification) /\ Get(req.verification).isValid) =>
         req.settleCalls = 1
    /\ Get(req.response) = OutcomeFromAnswers

C17_Witness ==
  /\ req.pc = "done" /\ ForFacilitator /\ Replayed
  /\ req.verifyCalls = 1 /\ req.settleCalls = 1
  /\ IsSome(req.verification) /\ Get(req.verification).isValid
  /\ IsSome(req.settlement)
  /\ Get(req.settlement).error = Some(<<"nonce too low">>)
  /\ Get(req.response).status = 402

\* C25: for one inbound request the middleware calls verify at most once
\* and settle at most once, the settle call broadcasts at most once and
\* waits for the receipt at most once; a request that has been answered,
\* with a failure or not, is over: nothing more happens for it.
C25_NoRetries ==
  /\ [](/\ req.verifyCalls <= 1 /\ req.settleCalls <= 1
        /\ req.broadcasts <= 1 /\ req.waits <= 1
        /\ req.settleCalls <= req.verifyCalls
        /\ req.waits <= req.broadcasts /\ req.broadcasts <= req.settleCalls)
  /\ [][req.pc = "done" => req' = Idle]_vars

\* a settlement failed after one verify, one settle, one broadcast, one wait
C25_Witness ==
  /\ req.pc = "done" /\ Get(req.response).status = 402
  /\ Get(req.response).error = "Payment settlement failed"
  /\ req.verifyCalls = 1 /\ req.settleCalls = 1
  /\ req.broadcasts = 1 /\ req.waits = 1

----------------------------------------------------------------------------
(* Properties of the facilitator endpoints; specification SpecFacilitator  *)

UpperLetters == <<"A", "B", "C", "D", "E", "F", "G", "H", "I", "J", "K", "L", "M",
                  "N", "O", "P", "Q", "R", "S", "T", "U", "V", "W", "X", "Y", "Z">>
LowerLetters == <<"a", "b", "c", "d", "e", "f", "g", "h", "i", "j", "k", "l", "m",
                  "n", "o", "p", "q", "r", "s", "t", "u", "v", "w", "x", "y", "z">>

\* two characters are the same letter in possibly different case
SameLetter(c, d) ==
  \/ c = d
  \/ \E i \in 1..Len(UpperLetters) :
       {c, d} = {UpperLetters[i], LowerLetters[i]}

\* two strings differ in nothing but letter case
SameUpToCase(a, b) ==
  Len(a) = Len(b) /\ \A i \in 1..Len(a) : SameLetter(a[i], b[i])

\* a verify request has been answered
VerifyAnswered == fac.pc = "done" /\ fac.op = "verify"

\* the verify request's requirements and the transaction its header carries,
\* for a request that got as far as the checks on the transaction
ReachedTransaction == VerifyAnswered /\ Get(fac.verification).parsedTx
VerifyRequirements == Get(Get(fac.body).paymentRequirements)
VerifyTx ==
  parseSignedTransaction(
    Get(JSONParse(B64Decode(Get(Get(fac.body).paymentHeader))).payload))

RecipientSame ==
  /\ IsSome(VerifyTx.to) /\ IsSome(VerifyRequirements.payTo)
  /\ SameUpToCase(Get(VerifyTx.to), Get(VerifyRequirements.payTo))

\* C7: verify rejects every payload whose transaction recipient differs from
\* requirements.payTo in a character other than by letter case, and does not
\* reject the recipient when it differs from payTo only in letter case.
C7_RecipientComparedUpToCase ==
  /\ (VerifyAnswered /\ Get(fac.verification).isValid) =>
       (ReachedTransaction /\ RecipientSame)
  /\ (ReachedTransaction /\ VerifyTx.parses /\ IsSome(VerifyRequirements.payTo)) =>
       (RecipientSame <=>
          Get(fac.verification).invalidReason # Some(Msg("Recipient mismatch")))

C7_Witness ==
  /\ ReachedTransaction /\ Get(fac.verification).isValid
  /\ Get(VerifyTx.to) # Get(VerifyRequirements.payTo)
  /\ RecipientSame

\* C8: verify accepts a payload only if the transaction's value equals
\* requirements.maxAmountRequired exactly; a value larger or smaller by one
\* atomic unit yields isValid = false.
C8_AmountExact ==
  /\ (VerifyAnswered /\ Get(fac.verification).isValid) =>
       (ReachedTransaction
          /\ VerifyTx.value = DecimalValue(VerifyRequirements.maxAmountRequired))
  /\ (ReachedTransaction /\ VerifyTx.parses
        /\ VerifyTx.value - DecimalValue(VerifyRequirements.maxAmountRequired)
             \in {-1, 1}) =>
       ~Get(fac.verification).isValid

C8_Witness ==
  /\ ReachedTransaction /\ VerifyTx.parses /\ RecipientSame
  /\ VerifyTx.value = DecimalValue(VerifyRequirements.maxAmountRequired) + 1
  /\ Get(fac.verification) =
       VerifyResponse(200, FALSE, Some(Msg("Amount mismatch")), TRUE)

\* C9 (as stated): a settle of a signed transaction the chain has already
\* accepted, whose broadcast faults with a message carrying a replay marker,
\* is answered 409 with the error 'Transaction already used'.
C9_ReplayIsConflict ==
  (fac.pc = "done" /\ fac.op = "settle"
     /\ IsSome(fac.submitted) /\ Get(fac.submitted) \in chain
     /\ IsSome(fac.fault) /\ IsDuplicateMessage(Get(fac.fault))) =>
    /\ Get(fac.settlement).status = 409
    /\ ~Get(fac.settlement).success
    /\ Get(fac.settlement).error = Some(Msg("Transaction already used"))

\* the verify request got as far as decoding its header: version,
\* header, scheme and network of the requirements are in order
ReachedDecode ==
  /\ VerifyAnswered /\ IsSome(fac.body)
  /\ IsSome(Get(fac.body).paymentRequirements)
  /\ Get(fac.body).x402Version = 1
  /\ IsSome(Get(fac.body).paymentHeader) /\ Get(Get(fac.body).paymentHeader) # <<>>
  /\ VerifyRequirements.scheme = "evm-transfer"
  /\ IsSome(VerifyRequirements.network)
  /\ VerifyRequirements.network \in {Some(MONAD_TESTNET), Some(MONAD_MAINNET),
                                     Some(<<"monad-", "devnet">>)}

\* the header has a character that is no base64 symbol
MalformedBase64(header) == \E i \in 1..Len(header) : header[i] > B64Pad

\* C18 (as stated): for a header that is not base64 verify answers
\* isValid = false with 'Invalid base64 encoding in X-PAYMENT header', and
\* for base64 that holds no JSON with 'Invalid JSON in payment payload'.
C18_DecodeReasonsDistinguished ==
  ReachedDecode =>
    LET header == Get(Get(fac.body).paymentHeader)
        v == Get(fac.verification)
    IN
    /\ MalformedBase64(header) =>
         /\ ~v.isValid
         /\ v.invalidReason = Some(Msg("Invalid base64 encoding in X-PAYMENT header"))
    /\ (~MalformedBase64(header) /\ ~JSONParses(B64Decode(header))) =>
         /\ ~v.isValid
         /\ v.invalidReason = Some(Msg("Invalid JSON in payment payload"))

\* C19: no verify call changes the chain, on any input and any path; the
\* chain changes only in a settle call.
C19_VerifyLeavesChainAlone ==
  [][/\ (fac.pc = "idle" /\ fac'.op = "verify") => chain' = chain
     /\ chain' # chain => (fac'.op = "settle" /\ fac'.pc = "wait"
                             /\ chain' = chain \cup {Get(fac'.submitted)})]_vars

C19_Witness ==
  /\ VerifyAnswered /\ Get(fac.verification).isValid
  /\ Get(JSONParse(B64Decode(Get(Get(fac.body).paymentHeader))).payload) \notin chain

\* the reason the first failing check gives, the checks taken in the order
\* version, missing header or requirements, scheme of the requirements,
\* network namespace, header decode, scheme then network of the payload,
\* missing signed transaction, transaction parse, recipient, amount, sender;
\* None when no check fails
FirstFailingCheck(b) ==
  IF b.x402Version # 1 THEN Some(Msg("Unsupported x402 version"))
  ELSE IF ~IsSome(b.paymentHeader) \/ b.paymentHeader = Some(<<>>)
          \/ ~IsSome(b.paymentRequirements)
    THEN Some(Msg("Missing paymentHeader or paymentRequirements"))
  ELSE LET reqs == Get(b.paymentRequirements)
           text == B64Decode(Get(b.paymentHeader))
       IN
    IF reqs.scheme # "evm-transfer" THEN Some(Msg("Unsupported scheme"))
    ELSE IF ~IsSome(reqs.network) \/ reqs.network = Some(<<>>)
            \/ Get(reqs.network)[1] # "monad-"
      THEN Some(Msg("Invalid Monad network"))
    ELSE IF ~JSONParses(text) THEN Some(Msg("Invalid JSON in payment payload"))
    ELSE LET p == JSONParse(text) IN
      IF p.scheme # reqs.scheme THEN Some(Msg("Scheme mismatch"))
      ELSE IF Some(p.network) # reqs.network THEN Some(Msg("Network mismatch"))
      ELSE IF p.payload = Some(0)
        THEN Some(Msg("Invalid payload: missing signedTransaction"))
      ELSE LET tx == SignedTxTable[Get(p.payload)] IN
        IF ~tx.parses THEN Some(Msg("Failed to parse transaction"))
        ELSE IF ~IsSome(tx.to) \/ ~SameUpToCase(Get(tx.to), Get(reqs.payTo))
          THEN Some(Msg("Recipient mismatch"))
        ELSE IF BigIntToString(tx.value) # reqs.maxAmountRequired
          THEN Some(Msg("Amount mismatch"))
        ELSE IF ~IsSome(tx.from) THEN Some(Msg("Invalid sender address"))
        ELSE None

\* the request body has the types of a VerifyRequest wherever it has a
\* value: a payload that is an object with a payload key, a payTo string
WellTyped(b) ==
  /\ (IsSome(b.paymentRequirements) => IsSome(Get(b.paymentRequirements).payTo))
  /\ (IsSome(b.paymentHeader) /\ JSONParses(B64Decode(Get(b.paymentHeader)))) =>
       LET p == JSONParse(B64Decode(Get(b.paymentHeader))) IN
         ~p.isNull /\ IsSome(p.payload)

\* C20 (as stated): the invalidReason verify returns is that of the first
\* check that fails, in the order version, missing header or requirements,
\* requirements scheme, network namespace, header decode, payload scheme
\* then network, missing signed transaction, transaction parse, recipient,
\* amount, sender; isValid exactly when none fails.
C20_FirstFailingCheckDecides ==
  (VerifyAnswered /\ IsSome(fac.body) /\ WellTyped(Get(fac.body))) =>
    /\ Get(fac.verification).invalidReason = FirstFailingCheck(Get(fac.body))
    /\ Get(fac.verification).isValid <=> FirstFailingCheck(Get(fac.body)) = None

\* the payload the verified header decodes to
VerifiedPayload == JSONParse(B64Decode(Get(Get(fac.body).paymentHeader)))

\* C21: when verify answers isValid = true, the decoded payload's scheme is
\* the requirements' scheme and is 'evm-transfer', and the payload's network
\* is the requirements' network, which starts with 'monad-'.
C21_ValidImpliesSchemeAndNetworkAgree ==
  (VerifyAnswered /\ Get(fac.verification).isValid) =>
    /\ VerifiedPayload.scheme = VerifyRequirements.scheme
    /\ VerifiedPayload.scheme = MONAD_SCHEME
    /\ Some(VerifiedPayload.network) = VerifyRequirements.network
    /\ VerifiedPayload.network[1] = "monad-"

\* verify has accepted a payment whose requirements name the recipient in
\* lower case
C21_Witness ==
  /\ VerifyAnswered /\ Get(fac.verification).isValid
  /\ VerifyRequirements.payTo = Some(ToLowerCase(AddrPayee))
  /\ VerifiedPayload.network = MONAD_TESTNET

\* the facilitator has taken a request whose header decodes to a payload
\* object
FacilitatorHasPayload ==
  /\ fac.pc # "idle" /\ IsSome(fac.body)
  /\ IsSome(Get(fac.body).paymentHeader)
  /\ JSONParses(B64Decode(Get(Get(fac.body).paymentHeader)))
  /\ ~VerifiedPayload.isNull

UnsupportedPayload ==
  VerifiedPayload.x402Version # 1 \/ VerifiedPayload.scheme # "evm-transfer"

\* C22 (as stated, for the two endpoints): a payload whose declared
\* x402Version is not 1 or whose declared scheme is not 'evm-transfer' is
\* rejected before the signed transaction is parsed (verify) or handed to
\* submitTransaction (settle).
C22_UnsupportedPayloadStopsEarly ==
  (FacilitatorHasPayload /\ UnsupportedPayload) =>
    /\ fac.pc = "done"
    /\ fac.op = "verify" =>
         ~Get(fac.verification).isValid /\ ~Get(fac.verification).parsedTx
    /\ fac.op = "settle" =>
         ~Get(fac.settlement).success /\ ~IsSome(fac.submitted)

\* the reasons of verify's checks 1-7: version, missing fields, scheme of
\* the requirements, network namespace, decode, scheme and network match,
\* missing signed transaction
EarlyReasons ==
  { Msg("Unsupported x402 version"),
    Msg("Missing paymentHeader or paymentRequirements"),
    Msg("Unsupported scheme"),
    Msg("Invalid Monad network"),
    Msg("Invalid JSON in payment payload"),
    Msg("Scheme mismatch"),
    Msg("Network mismatch"),
    Msg("Invalid payload: missing signedTransaction") }

\* verify rejects the body at one of its checks 1-7
VerifyRejectsEarly(body) ==
  LET v == VerifyPOST(body) IN
    ~v.isValid /\ IsSome(v.invalidReason) /\ Get(v.invalidReason) \in EarlyReasons

\* C23 (as stated): on every body that one of verify's checks 1-7 rejects,
\* settle answers success = false and broadcasts nothing.
C23_SettleRepeatsVerifyChecks ==
  (fac.op = "settle" /\ VerifyRejectsEarly(fac.body)) =>
    \* no broadcast is waiting for its receipt
    /\ fac.pc # "wait"
    /\ fac.pc = "done" => ~Get(fac.settlement).success

SettleAnswered == fac.pc = "done" /\ fac.op = "settle"

\* the hash of the transaction the settle call broadcast
BroadcastHash == Some(TxHash(Get(fac.submitted)))

\* C24: after a successful broadcast, a missing receipt and a receipt whose
\* status is not success are answered success = false with the transaction
\* hash, a successful receipt success = true with the hash and the
\* network identifier of the requirements; in every settle result
\* success = true comes with txHash and networkId and without error, and
\* success = false comes with an error.  (A wait that throws returns no
\* receipt value at all; the catch answers it as any other fault.)
C24_SettleResultShape ==
  SettleAnswered =>
    LET s == Get(fac.settlement) IN
    /\ s.success => IsSome(s.txHash) /\ IsSome(s.networkId) /\ ~IsSome(s.error)
    /\ ~s.success => IsSome(s.error)
    /\ fac.receipt \in {Some("none"), Some("reverted")} =>
         ~s.success /\ s.txHash = BroadcastHash
    /\ fac.receipt = Some("success") =>
         /\ s.success /\ s.txHash = BroadcastHash
         /\ s.networkId = Get(Get(fac.body).paymentRequirements).network

\* a broadcast went through and no receipt came back
C24_Witness ==
  /\ SettleAnswered /\ fac.receipt = Some("none")
  /\ Get(fac.submitted) \in chain
  /\ Get(fac.settlement).txHash = BroadcastHash

\* the responses the middleware defines for a configured route
DefinedResponse(r) ==
  \/ r.kind = "json" /\ r.status = 500 /\ r.error = "Server configuration error"
  \/ r.kind = "json" /\ r.status = 402 /\ IsSome(r.accepts)
  \/ r.kind = "json" /\ r.status = 400
       /\ r.error \in {"Unsupported x402 version", "Unsupported payment scheme"}
  \/ r.kind = "json" /\ r.status = 403 /\ r.error = "Payment verification failed"
  \/ r.kind = "json" /\ r.status = 402 /\ r.error = "Payment settlement failed"
  \/ r.kind = "json" /\ r.status = 500 /\ r.error = "Payment processing failed"
  \/ r.kind = "paid"

\* C29 (as stated): on a configured route, whatever the RouteConfig (its
\* network omitted or not) and the X-PAYMENT header, the request ends in
\* one of the defined responses, the middleware function never throws, and
\* an empty recipient address is answered 500 before the header is decoded
\* or the facilitator called.
C29_TotalOnConfiguredRoutes ==
  (req.pc = "done" /\ OnConfiguredRoute) =>
    /\ Get(req.response).kind # "throw"
    /\ DefinedResponse(Get(req.response))
    /\ cfg.recipientAddress = <<>> =>
         /\ Get(req.response).error = "Server configuration error"
         /\ req.verifyCalls = 0

\* C30 (as stated): when settle answers success = true with networkId = N
\* for requirements verify accepts, the transaction was broadcast to and
\* confirmed on the chain N identifies.
C30_SettledOnTheNamedChain ==
  (SettleAnswered /\ Get(fac.settlement).success /\ VerifyPOST(fac.body).isValid) =>
    LET network == Get(Get(Get(fac.body).paymentRequirements).network) IN
      /\ Get(fac.settlement).networkId = Some(network)
      /\ network = ChainOf(NetworkType(network))

----------------------------------------------------------------------------
(* Properties of paymentMiddleware with the facilitator behind it;         *)
(* specification Spec                                                      *)

\* the route's configuration and the transaction the settle call broadcast
RouteOfRequest == Get(RouteLookup(cfg.routes, req.pathname))
BroadcastTx == SignedTxTable[Get(req.submitted)]

\* C27: every transaction broadcast for a paymentMiddleware request is the
\* one of the request's header, which verify accepted against the route's
\* requirements: it pays the route's configured price, to the configured
\* recipient (an address, so compared up to the case of its hex digits).
C27_BroadcastPaysRouteAsConfigured ==
  req.broadcasts > 0 =>
    /\ IsSome(req.verification) /\ Get(req.verification).isValid
    /\ Some(Get(req.submitted)) =
         JSONParse(B64Decode(Get(req.paymentHeader))).payload
    /\ IsSome(BroadcastTx.to)
    /\ SameUpToCase(Get(BroadcastTx.to), cfg.recipientAddress)
    /\ BroadcastTx.value = DecimalValue(RouteOfRequest.price)
    /\ Get(req.submitted) \in chain

\* a transaction whose recipient is written in another case was broadcast
C27_Witness ==
  /\ req.broadcasts = 1 /\ req.pc = "wait"
  /\ BroadcastTx.to = Some(AddrPayeeOtherCase)

----------------------------------------------------------------------------
(* Properties of concurrent requests; specification SpecConcurrent         *)

\* C28: over every interleaving of requests that carry the same X-PAYMENT
\* header, one signed transaction buys at most one pass to the handler
\* (the node refuses a transaction it has already received: SubmitAccepts).
C28_OneTransactionOneAccess ==
  \A k \in SignedTxs : par.served[k] <= 1

\* two requests with the same header were both verified and ran at the same
\* time; one has been served and the other is refused at settlement
C28_Witness ==
  /\ par.served[1] = 1
  /\ \E i \in 1..NumSlots :
       LET q == par.slot[i] IN
         /\ q.pc = "done" /\ q.paymentHeader = Some(EncodeHeader(GoodPayload(1)))
         /\ IsSome(q.verification) /\ Get(q.verification).isValid
         /\ Get(q.response).status = 402
         /\ \E j \in 1..NumSlots :
              /\ j # i /\ par.slot[j].pc = "done"
              /\ par.slot[j].paymentHeader = q.paymentHeader
              /\ Get(par.slot[j].response).kind = "paid"

----------------------------------------------------------------------------
(* Properties of the bot gate; specification SpecBot                       *)

\* C10 (as stated): isBot of the browser User-Agent
\* 'Mozilla/5.0 ... Chrome/120.0' with no request is false, and
\* botProtectionMiddleware in non-strict mode forwards such a request
\* without a 402.
C10_BrowserIsNotABot ==
  (bot.pc = "done" /\ bot.userAgent = UABrowserDoc
     /\ Get(bot.config).enabled /\ ~Get(bot.config).strictMode) =>
    /\ ~isBot(UABrowserDoc, None)
    /\ Get(bot.response) = BotForward

\* a string contains a word, letter case disregarded
ContainsAnyCase(s, word) ==
  \E i \in 1..(Len(s) - Len(word) + 1) :
    SameUpToCase(SubSeq(s, i, i + Len(word) - 1), word)

\* a request has arrived and has been classified
BotArrived == bot.pc \in {"verify", "done"}

NamesABot(userAgent) ==
  \/ userAgent = <<>>
  \/ ContainsAnyCase(userAgent, <<"b", "o", "t">>)
  \/ ContainsAnyCase(userAgent, <<"c", "r", "a", "w", "l", "e", "r">>)
  \/ ContainsAnyCase(userAgent, <<"s", "p", "i", "d", "e", "r">>)

\* C11: isBot is true for every User-Agent that is empty or contains 'bot',
\* 'crawler' or 'spider' in any letter case, with and without a request.
C11_BotWordsAreBots ==
  (BotArrived /\ NamesABot(bot.userAgent)) =>
    /\ isBot(bot.userAgent, None)
    /\ isBot(bot.userAgent, bot.request)

C11_Witness ==
  /\ bot.pc = "done" /\ bot.userAgent = UAUpperSpider
  /\ Get(bot.config).enabled /\ ~Get(bot.config).strictMode
  /\ isBot(bot.userAgent, None)
  /\ Get(bot.response).status = 402

NoAllowList ==
  ~IsSome(Get(bot.config).allowedBots) \/ Get(bot.config).allowedBots = Some(<<>>)

\* C12: with the gate enabled and no allow-list, a request with User-Agent
\* 'curl/7.68.0' and no X-PAYMENT header is answered 402 whose accepts[0]
\* has botDetected 'cURL' and the configured price and recipient.
C12_CurlIsChallenged ==
  (bot.pc = "done" /\ bot.userAgent = UACurl /\ bot.paymentHeader = None
     /\ Get(bot.config).enabled /\ NoAllowList) =>
    LET r == Get(bot.response) IN
      /\ r.kind = "response" /\ r.status = 402
      /\ IsSome(r.accepts)
      /\ Get(r.accepts).botDetected = "cURL"
      /\ Get(r.accepts).maxAmountRequired = Get(bot.config).price
      /\ Get(r.accepts).payTo = Get(bot.config).recipientAddress
      /\ bot.verifyCalls = 0

C12_Witness ==
  /\ bot.pc = "done" /\ bot.userAgent = UACurl /\ bot.paymentHeader = None
  /\ Get(bot.config).enabled /\ NoAllowList
  /\ Get(bot.response).botDetected = Some("cURL")

\* the User-Agent contains an entry of the allow-list, case disregarded
OnAllowList ==
  /\ IsSome(Get(bot.config).allowedBots)
  /\ \E i \in 1..Len(Get(Get(bot.config).allowedBots)) :
       ContainsAnyCase(bot.userAgent, Get(Get(bot.config).allowedBots)[i])

\* C13: a request classified as a bot whose User-Agent contains an
\* allow-list entry as a case-insensitive substring is forwarded unchanged:
\* no 402, no facilitator call, whatever its X-PAYMENT header.
C13_AllowListedBotIsForwarded ==
  (BotArrived /\ Get(bot.config).enabled /\ OnAllowList) =>
    /\ bot.pc = "done"
    /\ Get(bot.response) = BotForward
    /\ bot.verifyCalls = 0

C13_Witness ==
  /\ bot.pc = "done" /\ bot.userAgent = UAGooglebotLower
  /\ Get(bot.config).enabled /\ OnAllowList
  /\ isBot(bot.userAgent, None)
  /\ IsSome(bot.paymentHeader) /\ Get(bot.paymentHeader) # <<>>
  /\ Get(bot.response) = BotForward

\* the request carries a correctly signed transfer of the configured price
\* to the configured recipient on the configured network
PaidAsConfigured ==
  /\ bot.paymentHeader = Some(EncodeHeader(GoodPayload(1)))
  /\ parseSignedTransaction(1).to = Some(Get(bot.config).recipientAddress)
  /\ BigIntToString(parseSignedTransaction(1).value) = Get(bot.config).price
  /\ Get(bot.config).network # Some(<<"mainnet">>)

\* C15 (as stated): a detected, non-allow-listed crawler that retries with
\* an X-PAYMENT header holding a correctly signed transfer of the configured
\* price to the configured recipient is verified by this repository's
\* verify endpoint and is then forwarded.
C15_PaidCrawlerIsServed ==
  (bot.pc = "done" /\ bot.verifyCalls = 1 /\ PaidAsConfigured
     /\ bot.facilitator = "repository") =>
    /\ Get(bot.response).kind = "next"
    /\ Get(bot.response).paid

\* C26 (as stated): a request of a classified bot that is not on the
\* allow list and carries an X-PAYMENT header goes through verify and then
\* settle, and is forwarded only after settle has succeeded.
C26_BotPaymentIsSettled ==
  (bot.pc = "done" /\ bot.verifyCalls = 1 /\ Get(bot.response).kind = "next") =>
    /\ Get(bot.response).paid
    /\ bot.settleCalls = 1

----------------------------------------------------------------------------
(* Properties of x402axios; specification SpecAxios                        *)

\* a RequestInit with its X-PAYMENT header taken off
WithoutPayment(init) == [init EXCEPT !.headers.xPayment = None]

\* the call's configuration with another private key and wallet in it
WithKeys(privateKey, wallet) ==
  [Get(ax.config) EXCEPT !.privateKey = privateKey, !.wallet = wallet]

OptionalKeys == {None} \cup { Some(k) : k \in PrivateKeys }

\* C14: in the initial request and in the paid retry, the URL, the headers
\* and the body sent are the same whatever privateKey or wallet the call
\* was given, but for the X-PAYMENT header, which is the encoding of the
\* signed transaction.
C14_RequestsIndependentOfKey ==
  \A i \in 1..Len(ax.sent) :
    /\ \A k \in OptionalKeys, w \in OptionalKeys :
         /\ ax.sent[i].url = buildURL(WithKeys(k, w))
         /\ WithoutPayment(ax.sent[i].init) = RequestInit(WithKeys(k, w))
    /\ IF i = 1 THEN ax.sent[i].init.headers.xPayment = None
       ELSE /\ Len(ax.signatures) = 1
            /\ ax.sent[i].init.headers.xPayment =
                 Some(AxPaymentHeader(Get(ax.reqs), ax.signatures[1].signedTx))

C14_Witness ==
  /\ ax.pc = "retry" /\ Len(ax.sent) = 2
  /\ Get(ax.wallet) = "key2"
  /\ LET accepts == Get(ax.reqs)
         other == signTransaction("key1",
                    buildTransferTransaction(WalletAddress("key1"), Get(accepts.payTo),
                                             Get(accepts.maxAmountRequired)))
     IN ax.sent[2].init.headers.xPayment # Some(AxPaymentHeader(accepts, other))

AxDone == ax.pc = "done"

AtMostTwoRequestsOneSignature == Len(ax.sent) <= 2 /\ Len(ax.signatures) <= 1

\* the signature is for the amount and the recipient the 402 advertised
SignedAsAdvertised ==
  LET tx == parseSignedTransaction(ax.signatures[1].signedTx)
      accepts == Get(ax.first).accepts
  IN /\ tx.to = accepts.payTo
     /\ tx.value = DecimalValue(Get(accepts.maxAmountRequired))

PaidOnce ==
  /\ Len(ax.signatures) = 1 /\ SignedAsAdvertised
  /\ Len(ax.sent) = 2
  /\ ax.sent[1].init.headers.xPayment = None
  /\ IsSome(ax.sent[2].init.headers.xPayment)

\* C16 (as stated): a first response that is not a 402 is returned with
\* nothing signed; a 402 makes the call sign exactly one transaction for the
\* advertised amount and recipient, retry exactly once with X-PAYMENT and
\* return the retry's response; at most two requests and one signature.
C16_PayOnceOn402 ==
  (AxDone /\ IsSome(ax.first)) =>
    /\ AtMostTwoRequestsOneSignature
    /\ Get(ax.first).status # 402 =>
         /\ Get(ax.result).kind = "response"
         /\ Get(ax.result).status = Get(ax.first).status
         /\ Len(ax.sent) = 1 /\ Len(ax.signatures) = 0
    /\ Get(ax.first).status = 402 =>
         (PaidOnce /\ Get(ax.result).kind = "response")

\* C16 (amended): a call makes at most two requests and one signature.  A
\* first response that is read and is not a 402 is returned with nothing
\* signed.  A call that ends after one request has signed nothing; a call
\* that sent a second request had a 402, signed exactly one transaction, for
\* the advertised amount and recipient, and sent it in X-PAYMENT, and it
\* returns the second response, when it is read, whatever its status.  A
\* call that returns nothing has thrown.
C16_PayOnceOrThrow ==
  /\ AtMostTwoRequestsOneSignature
  /\ Len(ax.signatures) = 1 <=> Len(ax.sent) = 2
  /\ Len(ax.sent) = 2 => (PaidOnce /\ Get(ax.first).status = 402)
  /\ (AxDone /\ IsSome(ax.first) /\ Get(ax.first).readable
        /\ Get(ax.first).status # 402) =>
       /\ Get(ax.result) = AxReturned(Get(ax.first), None)
       /\ Len(ax.sent) = 1
  /\ (AxDone /\ Get(ax.result).kind = "response" /\ Len(ax.sent) = 1) =>
       Get(ax.first).status # 402
  /\ (AxDone /\ IsSome(ax.second) /\ Get(ax.second).readable) =>
       Get(ax.result) =
         AxReturned(Get(ax.second), AxPaymentInfo(Get(ax.second), Get(ax.reqs)))
  /\ (AxDone /\ Get(ax.result).kind # "response") => Get(ax.result).kind = "throw"

C16_Witness ==
  /\ AxDone /\ PaidOnce
  /\ Get(ax.first).status = 402
  /\ Get(ax.result).kind = "response" /\ Get(ax.result).status = 403

====
